---- MODULE Spec2Model ----
(***************************************************************************)
(* Model of the TVL aggregation / points-emission core of neutrl-pendle:   *)
(*   - the row valuation of scripts/capture-snapshot.js (calculateRowData, *)
(*     calculateSummary) and of the TVL table component (getWeightedTvl,   *)
(*     totalWeightedTvl, getSharePercent),                                 *)
(*   - the capture run of scripts/capture-snapshot.js (main),              *)
(*   - the cached, single-flight GET handler of api/points/route.ts.       *)
(*                                                                         *)
(* Money is modelled exactly, in hundredths of a currency unit, so that    *)
(* the 5% / 95% / 20% / 80% splits are integers; a share is kept as the    *)
(* fraction num/den instead of a rounded percentage.                       *)
(***************************************************************************)
EXTENDS Integers, Sequences, FiniteSets, TLC

VARIABLES
    \* ---- row valuation -------------------------------------------------
    tvlData,          \* the /api/tvl response the evaluation runs on
    rowData,          \* capture script: result of calculateRowData
    summary,          \* capture script: result of calculateSummary
    uiRowData,        \* TVL table component: its rowData state (strings)
    uiRender,         \* TVL table component: the totals of its last render
    vpc,              \* which steps have run: [script, ui, route] booleans
    \* ---- capture run (main) --------------------------------------------
    phase,            \* position of main()
    retryCount,       \* retryCount argument of the running fetch*Data call
    requests,         \* requests issued in this run: [tvl, points]
    waits,            \* backoff waits of this run's fetches, in ms: [tvl, points]
    lastError,        \* the failure main() last caught ("none" if none)
    warnings,         \* what this run has warned about (console.warn)
    pointsData,       \* main's pointsData (NoPoints models null)
    snapshot,         \* the snapshot main built (NoSnapshot before that)
    store,            \* tvl_snapshots: the sequence of inserted rows
    storeAtStart,     \* history: the store when the current run started
    exitCode,         \* process exit status of the finished run (-1: none)
    clock,            \* wall clock of the capture host, in seconds
    \* ---- points route (GET /api/points) --------------------------------
    cache,            \* module-level cache {data, expires}
    fetchInProgress,  \* module-level promise (id) or NoFetch
    promises,         \* the promises fetchWithPuppeteer() has returned
    awaiting,         \* per promise, the GETs awaiting it, in await order
    gpc,              \* per GET request: its position and the promise it awaits
    response,         \* per GET request: the response it returned
    now,              \* Date.now() of the server, in ms
    ticks,            \* number of clock advances so far
    filledAt,         \* history: Date.now() at the last cache write
    upstreamCalls,    \* history: number of fetchWithPuppeteer() chains started
    \* ---- writers of the snapshot stores --------------------------------
    serverEnv,        \* environment of the server: CRON_SECRET, Supabase keys
    historyFile,      \* data/tvl-history.json: [exists, rows]
    wall,             \* wall clock shared by the writers, in ms
    writers,          \* per writer: its kind, position and local variables
    \* ---- inflation route and the projections made from it -------------
    snapshots,        \* what the route can read: [supabase, local]
    inflation,        \* the response of GET /api/inflation
    projection        \* the last projection a component computed from it

valVars == <<tvlData, rowData, summary, uiRowData, uiRender, vpc>>
capVars == <<phase, retryCount, requests, waits, lastError, warnings, pointsData,
             snapshot, store, storeAtStart, exitCode, clock>>
ptsVars == <<cache, fetchInProgress, promises, awaiting, gpc, response,
             now, ticks, filledAt, upstreamCalls>>
stoVars == <<serverEnv, historyFile, wall, writers>>
infVars == <<snapshots, inflation, projection>>
vars == <<valVars, capVars, ptsVars, stoVars, infVars>>

----------------------------------------------------------------------------
(* Bounds of the model. *)

MaxAmount == 2      \* upstream figures range over 0..MaxAmount

(* JavaScript `undefined` for an optional numeric field of a row literal. *)
UNDEF == -1

(* JavaScript truthiness of an optional number: undefined and 0 are falsy. *)
Truthy(x) == x # UNDEF /\ x # 0

(* JavaScript `x || d` on an optional number. *)
OrElse(x, d) == IF Truthy(x) THEN x ELSE d

RECURSIVE SumUpTo(_, _)
SumUpTo(s, n) == IF n = 0 THEN 0 ELSE s[n] + SumUpTo(s, n - 1)

(* The sum of a sequence of numbers (Array.prototype.reduce with +). *)
SumSeq(s) == SumUpTo(s, Len(s))

RECURSIVE Flatten(_)
Flatten(ss) == IF ss = <<>> THEN <<>> ELSE Head(ss) \o Flatten(Tail(ss))

----------------------------------------------------------------------------
(* The row tables. *)

Row(id, type, status, boost, baseBoost) ==
    [id |-> id, type |-> type, status |-> status, boost |-> boost,
     baseBoost |-> baseBoost]

FebRows(b) ==
    << Row("yt-nusd-feb26", "row", "display", b, UNDEF),
       Row("pendle-fee-nusd", "subrow", "active", b, UNDEF),
       Row("yt-nusd-feb26-net", "subrow", "active", b, UNDEF),
       Row("lp-nusd-feb26", "row", "display", b, UNDEF),
       Row("lp-excluded-nusd", "subrow", "display", 0, UNDEF),
       Row("lp-nusd-feb26-net", "subrow", "active", b, UNDEF),
       Row("pt-nusd-feb26", "row", "excluded", UNDEF, UNDEF) >>

MarRows(b) ==
    << Row("yt-snusd-mar26", "row", "display", b, UNDEF),
       Row("pendle-fee-snusd", "subrow", "active", b, UNDEF),
       Row("yt-snusd-mar26-net", "subrow", "active", b, UNDEF),
       Row("lp-snusd-mar26", "row", "display", b, UNDEF),
       Row("lp-excluded-snusd", "subrow", "display", 0, UNDEF),
       Row("lp-snusd-mar26-net", "subrow", "active", b, UNDEF),
       Row("pt-snusd-mar26", "row", "excluded", UNDEF, UNDEF) >>

HoldRows(upnusdBoost) ==
    << Row("hold-nusd", "row", "active", 5, UNDEF),
       Row("lock-nusd-3mo", "subrow", "locked", 6, 5),
       Row("lock-nusd-6mo", "subrow", "locked", 15, 5),
       Row("lock-nusd-9mo", "subrow", "locked", 25, 5),
       Row("lock-nusd-12mo", "subrow", "locked", 30, 5),
       Row("hold-snusd", "row", "active", 1, UNDEF),
       Row("lock-snusd-3mo", "subrow", "locked", 8, 1),
       Row("lock-snusd-6mo", "subrow", "locked", 20, 1),
       Row("lock-snusd-9mo", "subrow", "locked", 30, 1),
       Row("lock-snusd-12mo", "subrow", "locked", 40, 1),
       Row("hold-curve-lp", "row", "active", 5, UNDEF),
       Row("curve-nusd-breakdown", "subrow", "display", 5, UNDEF),
       Row("curve-usdc-breakdown", "subrow", "display", 5, UNDEF),
       Row("lock-curve-3mo", "subrow", "locked", 4, 5),
       Row("lock-curve-6mo", "subrow", "locked", 10, 5),
       Row("hold-upnusd", "row", "active", upnusdBoost, UNDEF) >>

(* scripts/capture-snapshot.js *)
TVL_CATEGORIES ==
    << [id |-> "feb-2026", rows |-> FebRows(50)],
       [id |-> "mar-2026", rows |-> MarRows(25)],
       [id |-> "hold", rows |-> HoldRows(18)] >>

(* src/lib/tvlData.ts, the table the TVL table component imports *)
TVL_CATEGORIES_lib ==
    << [id |-> "feb-2026", rows |-> FebRows(50)],
       [id |-> "mar-2026", rows |-> MarRows(25)],
       [id |-> "hold", rows |-> HoldRows(28)] >>

AllRows(cats) == Flatten([i \in 1..Len(cats) |-> cats[i].rows])

(* The rows of each table in table order (the order of Object.values). *)
ScriptRows == AllRows(TVL_CATEGORIES)
LibRows == AllRows(TVL_CATEGORIES_lib)

RowIds == {ScriptRows[i].id : i \in 1..Len(ScriptRows)}

RowDef(rows, id) == rows[CHOOSE i \in 1..Len(rows) : rows[i].id = id]

(* The row literal of an id, in each table. *)
ScriptRow == [id \in RowIds |-> RowDef(ScriptRows, id)]
LibRow == [id \in RowIds |-> RowDef(LibRows, id)]

----------------------------------------------------------------------------
(* The /api/tvl response, as far as the valuation reads it.  Figures are   *)
(* whole currency units; `locks` may be null (hasLocks = FALSE).           *)

Fields ==
    { "nusd.ytTotalSupply", "nusd.underlyingPrice", "nusd.lpSyTvl",
      "nusd.ptTotalSupply", "nusd.ptPrice", "nusd.holdTvl",
      "snusd.ytTotalSupply", "snusd.underlyingPrice", "snusd.lpSyTvl",
      "snusd.ptTotalSupply", "snusd.ptPrice", "snusd.holdTvl",
      "upnusd.tvl",
      "curve.unlockedTvl", "curve.nusdTvl", "curve.usdcTvl",
      "locks.nusd.3mo", "locks.nusd.6mo", "locks.nusd.9mo", "locks.nusd.12mo",
      "locks.snusd.3mo", "locks.snusd.6mo", "locks.snusd.9mo",
      "locks.snusd.12mo", "locks.curveLp.3mo", "locks.curveLp.6mo" }

PriceFields ==
    { "nusd.underlyingPrice", "nusd.ptPrice",
      "snusd.underlyingPrice", "snusd.ptPrice" }

Amounts == 0..MaxAmount

(* A response in which every amount is 0 and every price is 1. *)
BaseTvl == [f \in Fields |-> IF f \in PriceFields THEN 1 ELSE 0]

(* The responses the model feeds the evaluation: the base response with up *)
(* to two fields set to any amount, with and without lock data.            *)
TvlResponses ==
    { [f |-> [BaseTvl EXCEPT ![a] = va, ![b] = vb], hasLocks |-> l] :
        a \in Fields, b \in Fields, va \in Amounts, vb \in Amounts,
        l \in BOOLEAN }

(* x * 0.05, x * 0.95, x * 0.2, x * 0.8 in hundredths; a plain amount is    *)
(* Pct(x, 100).                                                            *)
Pct(x, p) == x * p

(* scripts/capture-snapshot.js:302-356 -- the raw amount of every row. *)
RawAmounts(d) ==
    LET f == d.f
        ytNusdTvl == f["nusd.ytTotalSupply"] * f["nusd.underlyingPrice"]
        ptNusdTvl == f["nusd.ptTotalSupply"] * f["nusd.ptPrice"]
        ytSnusdTvl == f["snusd.ytTotalSupply"] * f["snusd.underlyingPrice"]
        ptSnusdTvl == f["snusd.ptTotalSupply"] * f["snusd.ptPrice"]
        lock(k) == IF d.hasLocks THEN Pct(f[k], 100) ELSE 0
    IN  [id \in RowIds |->
          CASE id = "yt-nusd-feb26" -> Pct(ytNusdTvl, 100)
            [] id = "pendle-fee-nusd" -> Pct(ytNusdTvl, 5)
            [] id = "yt-nusd-feb26-net" -> Pct(ytNusdTvl, 95)
            [] id = "lp-nusd-feb26" -> Pct(f["nusd.lpSyTvl"], 100)
            [] id = "lp-excluded-nusd" -> Pct(f["nusd.lpSyTvl"], 20)
            [] id = "lp-nusd-feb26-net" -> Pct(f["nusd.lpSyTvl"], 80)
            [] id = "pt-nusd-feb26" -> Pct(ptNusdTvl, 100)
            [] id = "hold-nusd" -> Pct(f["nusd.holdTvl"], 100)
            [] id = "yt-snusd-mar26" -> Pct(ytSnusdTvl, 100)
            [] id = "pendle-fee-snusd" -> Pct(ytSnusdTvl, 5)
            [] id = "yt-snusd-mar26-net" -> Pct(ytSnusdTvl, 95)
            [] id = "lp-snusd-mar26" -> Pct(f["snusd.lpSyTvl"], 100)
            [] id = "lp-excluded-snusd" -> Pct(f["snusd.lpSyTvl"], 20)
            [] id = "lp-snusd-mar26-net" -> Pct(f["snusd.lpSyTvl"], 80)
            [] id = "pt-snusd-mar26" -> Pct(ptSnusdTvl, 100)
            [] id = "hold-snusd" -> Pct(f["snusd.holdTvl"], 100)
            [] id = "hold-upnusd" -> Pct(f["upnusd.tvl"], 100)
            [] id = "hold-curve-lp" -> Pct(f["curve.unlockedTvl"], 100)
            [] id = "curve-nusd-breakdown" -> Pct(f["curve.nusdTvl"], 100)
            [] id = "curve-usdc-breakdown" -> Pct(f["curve.usdcTvl"], 100)
            [] id = "lock-nusd-3mo" -> lock("locks.nusd.3mo")
            [] id = "lock-nusd-6mo" -> lock("locks.nusd.6mo")
            [] id = "lock-nusd-9mo" -> lock("locks.nusd.9mo")
            [] id = "lock-nusd-12mo" -> lock("locks.nusd.12mo")
            [] id = "lock-snusd-3mo" -> lock("locks.snusd.3mo")
            [] id = "lock-snusd-6mo" -> lock("locks.snusd.6mo")
            [] id = "lock-snusd-9mo" -> lock("locks.snusd.9mo")
            [] id = "lock-snusd-12mo" -> lock("locks.snusd.12mo")
            [] id = "lock-curve-3mo" -> lock("locks.curveLp.3mo")
            [] id = "lock-curve-6mo" -> lock("locks.curveLp.6mo") ]

----------------------------------------------------------------------------
(* Row valuation of the capture script. *)

(* A share is the exact fraction num/den (in percent). *)
ZeroShare == [num |-> 0, den |-> 1]

(* Faulty variant: display rows are counted as well. *)
Counted_WithDisplay(status) ==
    status = "active" \/ status = "locked" \/ status = "display"

(* status === "active" || status === "locked" *)
Counted(status) == status = "active" \/ status = "locked"

(* capture-snapshot.js:287-298 -- the rowData entry made from one row of   *)
(* the table.                                                              *)
InitRow(row) ==
    [id |-> row.id, tvlAmount |-> 0, boost |-> OrElse(row.boost, 0),
     baseBoost |-> OrElse(row.baseBoost, 1), status |-> row.status,
     type |-> row.type, weightedTvl |-> 0, dailyPoints |-> 0,
     share |-> ZeroShare]

(* capture-snapshot.js:284-300 -- rowData as initialised from the table. *)
InitRowData == [id \in RowIds |-> InitRow(ScriptRow[id])]

(* Faulty variant: the excluded branch is missing. *)
RowWeightedTvl_NoExcluded(row) ==
    LET effectiveBoost ==
            IF Truthy(row.baseBoost) THEN row.baseBoost * row.boost
                                     ELSE row.boost
    IN  row.tvlAmount * effectiveBoost

(* capture-snapshot.js:361-368 -- weighted TVL of one rowData entry. *)
RowWeightedTvl(row) ==
    IF row.status = "excluded"
    THEN 0
    ELSE LET effectiveBoost ==
                 IF Truthy(row.baseBoost) THEN row.baseBoost * row.boost
                                          ELSE row.boost
         IN  row.tvlAmount * effectiveBoost

(* Faulty variant: the total runs over every row, whatever its status. *)
TotalWeighted_AllRows(rd) ==
    LET rows == ScriptRows
    IN  SumSeq([i \in 1..Len(rows) |-> rd[rows[i].id].weightedTvl])

(* capture-snapshot.js:359-372 -- the running total over Object.values. *)
TotalWeighted(rd) ==
    LET rows == ScriptRows
    IN  SumSeq([i \in 1..Len(rows) |->
                  IF Counted(rd[rows[i].id].status)
                  THEN rd[rows[i].id].weightedTvl ELSE 0])

(* Faulty variant: the share is computed without looking at the total. *)
RowShare_NoGuard(row, totalWeightedTvl) ==
    IF Counted(row.status)
    THEN [num |-> row.weightedTvl * 100, den |-> totalWeightedTvl]
    ELSE ZeroShare

(* capture-snapshot.js:375-381 -- share of one row. *)
RowShare(row, totalWeightedTvl) ==
    IF totalWeightedTvl > 0 /\ Counted(row.status)
    THEN [num |-> row.weightedTvl * 100, den |-> totalWeightedTvl]
    ELSE ZeroShare

(* capture-snapshot.js:281-384 *)
calculateRowData(d) ==
    LET raw == RawAmounts(d)
        r1 == [id \in RowIds |-> [InitRowData[id] EXCEPT !.tvlAmount = raw[id]]]
        r2 == [id \in RowIds |->
                 [r1[id] EXCEPT !.weightedTvl = RowWeightedTvl(r1[id]),
                                !.dailyPoints = RowWeightedTvl(r1[id])]]
        total == TotalWeighted(r2)
    IN  [id \in RowIds |-> [r2[id] EXCEPT !.share = RowShare(r2[id], total)]]

(* main's pointsData: null, or the body of a 200 response of /api/points. *)
NoPoints == [present |-> FALSE, totalPoints |-> 0, participantCount |-> 0]

(* capture-snapshot.js:386-412 (the formatted mirrors are left out). *)
calculateSummary(rd, pd) ==
    LET rows == ScriptRows
        totalRawTvl ==
            SumSeq([i \in 1..Len(rows) |->
                      IF Counted(rd[rows[i].id].status)
                      THEN rd[rows[i].id].tvlAmount ELSE 0])
        totalWeightedTvl ==
            SumSeq([i \in 1..Len(rows) |->
                      IF Counted(rd[rows[i].id].status)
                      THEN rd[rows[i].id].weightedTvl ELSE 0])
    IN  [s1RewardsIssued |-> IF pd.present THEN OrElse(pd.totalPoints, 0) ELSE 0,
         participantCount |-> IF pd.present THEN OrElse(pd.participantCount, 0)
                                            ELSE 0,
         totalTvl |-> totalRawTvl,
         weightedTvl |-> totalWeightedTvl,
         estDailyPoints |-> totalWeightedTvl,
         estWeeklyPoints |-> totalWeightedTvl * 7,
         estMonthlyPoints |-> totalWeightedTvl * 30]

(* capture-snapshot.js:414-432 *)
formatTableData(rd) ==
    [c \in 1..Len(TVL_CATEGORIES) |->
        [category |-> TVL_CATEGORIES[c].id,
         rows |-> [i \in 1..Len(TVL_CATEGORIES[c].rows) |->
                     LET data == rd[TVL_CATEGORIES[c].rows[i].id]
                     IN  [id |-> data.id, tvlAmount |-> data.tvlAmount,
                          weightedTvl |-> data.weightedTvl,
                          dailyPoints |-> data.dailyPoints,
                          share |-> data.share]]]]

----------------------------------------------------------------------------
(* Row valuation of the TVL table component (src/components/Footer.tsx).   *)
(* Its state keeps every amount as a string: "" initially, then            *)
(* Number.toString(); reading is parseFloat(s) || 0.                       *)

EmptyString == [kind |-> "empty", num |-> 0]
toString(n) == [kind |-> "number", num |-> n]
NaN == [nan |-> TRUE, num |-> 0]
parseFloat(s) == IF s.kind = "number" THEN [nan |-> FALSE, num |-> s.num]
                                      ELSE NaN
(* `parseFloat(s) || 0`: NaN and 0 are falsy. *)
ParsedOrZero(s) == IF parseFloat(s).nan THEN 0 ELSE parseFloat(s).num

(* Footer.tsx:251-263 *)
InitUiRowData ==
    [id \in RowIds |->
        [tvlAmount |-> EmptyString,
         boost |-> OrElse(LibRow[id].boost, 0)]]

(* Footer.tsx:266-437 -- the effect that copies the live data in. *)
PopulateUi(prev, d) ==
    LET raw == RawAmounts(d)
        live(id) == d.hasLocks \/
                    id \notin { "lock-nusd-3mo", "lock-nusd-6mo", "lock-nusd-9mo",
                                "lock-nusd-12mo", "lock-snusd-3mo",
                                "lock-snusd-6mo", "lock-snusd-9mo",
                                "lock-snusd-12mo", "lock-curve-3mo",
                                "lock-curve-6mo" }
    IN  [id \in RowIds |->
           IF live(id) THEN [prev[id] EXCEPT !.tvlAmount = toString(raw[id])]
                       ELSE prev[id]]

(* Footer.tsx:452-459 *)
getWeightedTvl(ui, row) ==
    LET tvl == ParsedOrZero(ui[row.id].tvlAmount)
        boost == OrElse(row.boost, 0)
        baseBoost == OrElse(row.baseBoost, 1)
    IN  IF row.status = "excluded" THEN 0
        ELSE IF Truthy(row.baseBoost) THEN tvl * baseBoost * boost
        ELSE tvl * boost

(* Footer.tsx:462-464 *)
shouldCountInTotal(row) == row.status = "active" \/ row.status = "locked"

(* Footer.tsx:467-471 *)
getEffectiveMultiplier(row) ==
    LET boost == OrElse(row.boost, 0)
        baseBoost == OrElse(row.baseBoost, 1)
    IN  IF Truthy(row.baseBoost) THEN baseBoost * boost ELSE boost

(* Footer.tsx:474-484 *)
totalWeightedTvl(ui) ==
    LET rows == LibRows
    IN  SumSeq([i \in 1..Len(rows) |->
                  IF rows[i].type # "total" /\ shouldCountInTotal(rows[i])
                  THEN getWeightedTvl(ui, rows[i]) ELSE 0])

(* Footer.tsx:487-497 *)
totalRawTvl(ui) ==
    LET rows == LibRows
    IN  SumSeq([i \in 1..Len(rows) |->
                  IF rows[i].type # "total" /\ shouldCountInTotal(rows[i])
                  THEN ParsedOrZero(ui[rows[i].id].tvlAmount) ELSE 0])

(* Footer.tsx:500-503; total is the render's constant totalWeightedTvl. *)
getSharePercent(ui, total, row) ==
    IF total = 0
    THEN ZeroShare
    ELSE [num |-> getWeightedTvl(ui, row) * 100, den |-> total]

(* Footer.tsx:474-497 -- the totals a render of the component computes. *)
Render(ui) ==
    [totalWeightedTvl |-> totalWeightedTvl(ui), totalRawTvl |-> totalRawTvl(ui)]

----------------------------------------------------------------------------
(* Initial values of the parts of the state. *)

NoSummary ==
    [s1RewardsIssued |-> 0, participantCount |-> 0, totalTvl |-> 0,
     weightedTvl |-> 0, estDailyPoints |-> 0, estWeeklyPoints |-> 0,
     estMonthlyPoints |-> 0]

NoSnapshot == [built |-> FALSE]

NoError == [from |-> "none", kind |-> "none"]

NoFetch == 0

NoData == [present |-> FALSE, totalPoints |-> 0, participantCount |-> 0,
           timestamp |-> 0]

NoResponse == [status |-> 0]

MaxRequests == 3    \* GET requests to the points route
MaxTicks == 2       \* clock advances of the points server
MaxClock == 1       \* seconds the capture host's clock advances
MaxPoints == 1      \* points figures range over 0..MaxPoints
MaxBoost == 2       \* boosts tried on a single row range over 0..MaxBoost

Req == 1..MaxRequests

ValIdle ==
    /\ tvlData = [f |-> BaseTvl, hasLocks |-> TRUE]
    /\ rowData = InitRowData
    /\ summary = NoSummary
    /\ uiRowData = InitUiRowData
    /\ uiRender = Render(InitUiRowData)
    /\ vpc = [script |-> FALSE, ui |-> FALSE, route |-> FALSE]

CapIdle ==
    /\ phase = "Idle"
    /\ retryCount = 0
    /\ requests = [tvl |-> 0, points |-> 0]
    /\ waits = [tvl |-> <<>>, points |-> <<>>]
    /\ lastError = NoError
    /\ warnings = {}
    /\ pointsData = NoPoints
    /\ snapshot = NoSnapshot
    /\ exitCode = -1
    /\ clock = 0

MaxWriters == 2     \* writers of the snapshot stores
MaxWall == 2        \* half seconds the writers' wall clock advances

Writers == 1..MaxWriters

(* process.env.X is undefined *)
Unset == ""

NoWriter ==
    [kind |-> "none", pc |-> "idle", snapshot |-> NoSnapshot, history |-> <<>>,
     presented |-> FALSE, status |-> 0]

StoIdle ==
    /\ serverEnv = [CRON_SECRET |-> Unset, supabaseAdmin |-> TRUE]
    /\ historyFile = [exists |-> FALSE, rows |-> <<>>]
    /\ wall = 0
    /\ writers = [w \in Writers |-> NoWriter]

(* There is no local history file: loadFromLocalFile gives null. *)
NoFile == [exists |-> FALSE, rows |-> <<>>]

NoProjection == [component |-> "none"]

InfIdle ==
    /\ snapshots = [supabase |-> <<>>, local |-> NoFile]
    /\ inflation = NoResponse
    /\ projection = NoProjection

PtsIdle ==
    /\ cache = [data |-> NoData, expires |-> 0]
    /\ fetchInProgress = NoFetch
    /\ promises = <<>>
    /\ awaiting = <<>>
    /\ gpc = [r \in Req |-> [pc |-> "new", promise |-> NoFetch]]
    /\ response = [r \in Req |-> NoResponse]
    /\ now = 1
    /\ ticks = 0
    /\ filledAt = 0
    /\ upstreamCalls = 0

----------------------------------------------------------------------------
(* Specification of the row valuation: the response is drawn from          *)
(* TvlResponses, then the capture script and the TVL table evaluate it.    *)

InitVal ==
    /\ tvlData \in TvlResponses
    /\ rowData = InitRowData
    /\ summary = NoSummary
    /\ uiRowData = InitUiRowData
    /\ uiRender = Render(InitUiRowData)
    /\ vpc = [script |-> FALSE, ui |-> FALSE, route |-> TRUE]
    /\ CapIdle
    /\ store = <<>>
    /\ storeAtStart = <<>>
    /\ PtsIdle
    /\ StoIdle
    /\ InfIdle

(* capture-snapshot.js:456-459 on the response. *)
Evaluate ==
    /\ ~vpc.script
    /\ rowData' = calculateRowData(tvlData)
    /\ summary' = calculateSummary(rowData', pointsData)
    /\ vpc' = [vpc EXCEPT !.script = TRUE]
    /\ UNCHANGED <<tvlData, uiRowData, uiRender, capVars, ptsVars,
                   stoVars, infVars>>

(* Footer.tsx:266-437, the effect run when the response arrives, and the  *)
(* render that follows the state update.                                   *)
TvlTableEffect ==
    /\ ~vpc.ui
    /\ uiRowData' = PopulateUi(uiRowData, tvlData)
    /\ uiRender' = Render(uiRowData')
    /\ vpc' = [vpc EXCEPT !.ui = TRUE]
    /\ UNCHANGED <<tvlData, rowData, summary, capVars, ptsVars,
                   stoVars, infVars>>

NextVal == Evaluate \/ TvlTableEffect

SpecVal == InitVal /\ [][NextVal]_vars

----------------------------------------------------------------------------
(* The TVL route (GET /api/tvl): the hold and Curve figures it derives     *)
(* from the explorer calls, each of which gives null when it fails.        *)

(* What an explorer call gives: null (as UNDEF) or an amount. *)
Fetched == {UNDEF} \cup Amounts

(* TVL route:339-362 and 372-476 -- the response built from the calls.     *)
(* The market prices are 1, the sNUSD calls give what the NUSD calls give, *)
(* and the lock events put the amount `locked` of each asset into its 3mo  *)
(* bucket (lockData is null when locked is).                               *)
RouteResult(curveNusdBalance, curveUsdcBalance, curveLpTotalSupply, nusdTotalSupply, syNusdBalance, locked) ==
    LET nusdPrice == 1
        curveNusd == OrElse(curveNusdBalance, 0)
        curveUsdc == OrElse(curveUsdcBalance, 0)
        curveTotalTvl == (curveNusd * nusdPrice) + (curveUsdc * 1)
        curveLpSupply == OrElse(curveLpTotalSupply, 1)
        lockedInContract == OrElse(locked, 0)
        \* lockedInContract * curveLpPrice, curveLpPrice being
        \* curveTotalTvl / curveLpSupply
        curveLpLockedTvl == (lockedInContract * curveTotalTvl) \div curveLpSupply
        curveLpUnlockedTvl == curveTotalTvl - curveLpLockedTvl
        nusdCirculating == OrElse(nusdTotalSupply, 0) - OrElse(syNusdBalance, 0)
                              - curveNusd - lockedInContract
        snusdCirculating == OrElse(nusdTotalSupply, 0)
                               - OrElse(syNusdBalance, 0) - lockedInContract
    IN  [f |-> [BaseTvl EXCEPT
                  !["nusd.holdTvl"] =
                      (IF nusdCirculating > 0 THEN nusdCirculating ELSE 0)
                         * nusdPrice,
                  !["snusd.holdTvl"] =
                      (IF snusdCirculating > 0 THEN snusdCirculating ELSE 0)
                         * nusdPrice,
                  !["curve.nusdTvl"] = curveNusd * nusdPrice,
                  !["curve.usdcTvl"] = curveUsdc * 1,
                  !["curve.unlockedTvl"] = curveLpUnlockedTvl,
                  !["locks.nusd.3mo"] = lockedInContract * nusdPrice,
                  !["locks.snusd.3mo"] = lockedInContract * nusdPrice,
                  !["locks.curveLp.3mo"] = curveLpLockedTvl],
         hasLocks |-> locked # UNDEF]

(* The figures whose Curve LP price the model's whole numbers hold exactly. *)
ExactLpPrice(curveNusdBalance, curveUsdcBalance, curveLpTotalSupply, locked) ==
    (OrElse(locked, 0)
        * (OrElse(curveNusdBalance, 0) + OrElse(curveUsdcBalance, 0)))
       % OrElse(curveLpTotalSupply, 1) = 0

InitRoute ==
    /\ ValIdle
    /\ CapIdle
    /\ store = <<>>
    /\ storeAtStart = <<>>
    /\ PtsIdle
    /\ StoIdle
    /\ InfIdle

(* TVL route:262-573 -- GET, with the explorer key configured. *)
TvlGET ==
    /\ ~vpc.route
    /\ \E curveNusdBalance \in Fetched, curveUsdcBalance \in Fetched,
          curveLpTotalSupply \in Fetched, nusdTotalSupply \in Fetched,
          syNusdBalance \in Fetched, locked \in Fetched :
          /\ ExactLpPrice(curveNusdBalance, curveUsdcBalance,
                          curveLpTotalSupply, locked)
          /\ tvlData' = RouteResult(curveNusdBalance, curveUsdcBalance,
                                    curveLpTotalSupply, nusdTotalSupply,
                                    syNusdBalance, locked)
    /\ vpc' = [vpc EXCEPT !.route = TRUE]
    /\ UNCHANGED <<rowData, summary, uiRowData, uiRender, capVars, ptsVars,
                   stoVars, infVars>>

(* capture-snapshot.js:456-459 -- the capture script evaluates the         *)
(* response it fetched.                                                    *)
RouteEvaluate == vpc.route /\ Evaluate

NextRoute == TvlGET \/ RouteEvaluate

SpecRoute == InitRoute /\ [][NextRoute]_vars

----------------------------------------------------------------------------
(* The capture run: main() of scripts/capture-snapshot.js.  The script     *)
(* exits before main() unless BASE_URL and the Supabase settings are set,  *)
(* so main() always saves through saveToSupabase.                          *)

TVL_MAX_RETRIES == 4        \* fetchTvlData: MAX_RETRIES
POINTS_MAX_RETRIES == 2     \* fetchPointsData: MAX_RETRIES
RETRY_DELAY == 10000        \* base delay of both, in ms

RECURSIVE Pow2(_)
Pow2(k) == IF k = 0 THEN 1 ELSE 2 * Pow2(k - 1)

(* How one request of fetchTvlData / fetchPointsData can end:              *)
(*   ok       a 2xx response                                               *)
(*   timeout  AbortSignal.timeout fired; fetch rejects with the signal's   *)
(*            reason, a DOMException named TimeoutError                    *)
(*   abort    the request was aborted with a DOMException named AbortError *)
(*   network  fetch rejects with TypeError "fetch failed"                  *)
(*   railway  a non-2xx response whose body has "Application not found" or *)
(*            "request_id"                                                 *)
(*   http     any other non-2xx response                                   *)
FetchOutcomes == {"ok", "timeout", "abort", "network", "railway", "http"}

(* The error object the try block raises for a failed request. *)
ErrorOf(o) ==
    [name |-> CASE o = "timeout" -> "TimeoutError"
                [] o = "abort" -> "AbortError"
                [] o = "network" -> "TypeError"
                [] OTHER -> "Error",
     fetchFailed |-> (o = "network"),
     isRailwayError |-> (o = "railway")]

(* Faulty variant: the number of retries is not capped. *)
shouldRetry_NoCap(rc, maxRetries, error) ==
    error.name = "AbortError" \/ error.fetchFailed \/ error.isRailwayError

(* capture-snapshot.js:105-109 and 154-158 *)
shouldRetry(rc, maxRetries, error) ==
    rc < maxRetries /\ (error.name = "AbortError" \/ error.fetchFailed
                          \/ error.isRailwayError)

(* The /api/tvl responses a capture run may receive. *)
CaptureTvlResponses ==
    { [f |-> [BaseTvl EXCEPT !["nusd.holdTvl"] = a, !["nusd.ptTotalSupply"] = 1],
       hasLocks |-> TRUE] : a \in Amounts }

(* The bodies of the 200 responses of /api/points. *)
PointsResponses ==
    { [present |-> TRUE, totalPoints |-> p, participantCount |-> p] :
        p \in 0..MaxPoints }

(* A scheduler starts the script; main() begins (capture-snapshot.js:434). *)
StartRun ==
    /\ phase = "Idle"
    /\ phase' = "Warmup"
    /\ storeAtStart' = store
    /\ UNCHANGED <<retryCount, requests, waits, lastError, warnings, pointsData,
                   snapshot, store, exitCode, clock, valVars, ptsVars,
                   stoVars, infVars>>

(* capture-snapshot.js:51-72: whatever the warmup request does, main goes  *)
(* on to fetchTvlData(); a failed request only warns.                      *)
WarmupApp ==
    /\ phase = "Warmup"
    /\ \E failed \in BOOLEAN :
         warnings' = IF failed THEN warnings \cup {"warmup"} ELSE warnings
    /\ phase' = "FetchingTvl"
    /\ retryCount' = 0
    /\ UNCHANGED <<requests, waits, lastError, pointsData, snapshot, store,
                   storeAtStart, exitCode, clock, valVars, ptsVars,
                   stoVars, infVars>>

(* Faulty variant: main goes on to the points fetch after fetchTvlData threw. *)
TvlFailurePhase_GoesOn == "FetchingPoints"

(* capture-snapshot.js:444 and 494-518: fetchTvlData's error reaches       *)
(* main's catch, which ends the process.                                   *)
TvlFailurePhase == "Aborted"

(* Faulty variant: the points error is not caught and reaches main's catch. *)
PointsFailurePhase_NotCaught == "Aborted"

(* Faulty variant: after the points error main saves without valuating. *)
PointsFailurePhase_Skips == "Persisting"

(* capture-snapshot.js:447-456: fetchPointsData's error is caught where it *)
(* is called and main goes on to the valuation.                            *)
PointsFailurePhase == "Valuating"

(* capture-snapshot.js:74-121: one request of fetchTvlData(retryCount),    *)
(* with the backoff wait and the recursive call when it is retried, and    *)
(* main's catch (494-519) when it throws.                                  *)
FetchTvlData ==
    /\ phase = "FetchingTvl"
    /\ requests' = [requests EXCEPT !.tvl = @ + 1]
    /\ \E o \in FetchOutcomes :
         IF o = "ok"
         THEN /\ tvlData' \in CaptureTvlResponses
              /\ phase' = "FetchingPoints"
              /\ retryCount' = 0
              /\ UNCHANGED <<waits, lastError, exitCode>>
         ELSE IF shouldRetry(retryCount, TVL_MAX_RETRIES, ErrorOf(o))
         THEN /\ waits' = [waits EXCEPT
                             !.tvl = Append(@, RETRY_DELAY * Pow2(retryCount))]
              /\ retryCount' = retryCount + 1
              /\ UNCHANGED <<tvlData, phase, lastError, exitCode>>
         ELSE /\ phase' = TvlFailurePhase
              /\ lastError' = [from |-> "fetchTvlData", kind |-> o]
              /\ exitCode' = 1
              /\ UNCHANGED <<tvlData, retryCount, waits>>
    /\ UNCHANGED <<warnings, pointsData, snapshot, store, storeAtStart,
                   clock, rowData, summary, uiRowData, uiRender, vpc, ptsVars,
                   stoVars, infVars>>

(* capture-snapshot.js:123-170 and 447-453: one request of                 *)
(* fetchPointsData(retryCount); when it throws, main warns and goes on     *)
(* with pointsData = null.                                                 *)
FetchPointsData ==
    /\ phase = "FetchingPoints"
    /\ requests' = [requests EXCEPT !.points = @ + 1]
    /\ \E o \in FetchOutcomes :
         IF o = "ok"
         THEN /\ pointsData' \in PointsResponses
              /\ phase' = "Valuating"
              /\ UNCHANGED <<waits, retryCount, warnings, exitCode>>
         ELSE IF shouldRetry(retryCount, POINTS_MAX_RETRIES, ErrorOf(o))
         THEN /\ waits' = [waits EXCEPT
                             !.points = Append(@, RETRY_DELAY * Pow2(retryCount))]
              /\ retryCount' = retryCount + 1
              /\ UNCHANGED <<pointsData, phase, warnings, exitCode>>
         ELSE /\ pointsData' = NoPoints
              /\ warnings' = warnings \cup {"points"}
              /\ phase' = PointsFailurePhase
              /\ exitCode' = IF PointsFailurePhase = "Aborted" THEN 1 ELSE exitCode
              /\ UNCHANGED <<retryCount, waits>>
    /\ UNCHANGED <<lastError, snapshot, store, storeAtStart, clock,
                   valVars, ptsVars,
                   stoVars, infVars>>

(* capture-snapshot.js:455-471: valuation and the snapshot literal. *)
BuildSnapshot ==
    /\ phase = "Valuating"
    /\ rowData' = calculateRowData(tvlData)
    /\ summary' = calculateSummary(rowData', pointsData)
    /\ snapshot' = [built |-> TRUE,
                    capturedAtUnix |-> clock,
                    summary |-> summary',
                    tableCondensed |-> formatTableData(rowData')]
    /\ phase' = "Persisting"
    /\ UNCHANGED <<retryCount, requests, waits, lastError, warnings, pointsData,
                   store, storeAtStart, exitCode, clock, tvlData,
                   uiRowData, uiRender, vpc, ptsVars,
                   stoVars, infVars>>

(* capture-snapshot.js:172-193: the row saveToSupabase inserts. *)
InsertedRow(snap) ==
    [captured_at_unix |-> snap.capturedAtUnix,
     summary |-> snap.summary,
     table_condensed |-> snap.tableCondensed]

(* The rows an earlier capture run can have left in the store. *)
PriorRows ==
    { InsertedRow([capturedAtUnix |-> 0,
                   summary |-> calculateSummary(calculateRowData(d), pd),
                   tableCondensed |-> formatTableData(calculateRowData(d))]) :
        d \in CaptureTvlResponses, pd \in {NoPoints} \cup PointsResponses }

(* A capture run starts on an empty store or after an earlier run. *)
InitCapture ==
    /\ ValIdle
    /\ CapIdle
    /\ PtsIdle
    /\ StoIdle
    /\ InfIdle
    /\ store \in {<<>>} \cup {<<r>> : r \in PriorRows}
    /\ storeAtStart = store

(* capture-snapshot.js:480-492 and 494-519: the insert succeeds and main   *)
(* returns, or it fails and main's catch exits with status 1.              *)
SaveToSupabase ==
    /\ phase = "Persisting"
    /\ \E inserted \in BOOLEAN :
         IF inserted
         THEN /\ store' = Append(store, InsertedRow(snapshot))
              /\ phase' = "Done"
              /\ exitCode' = 0
              /\ UNCHANGED lastError
         ELSE /\ phase' = "Aborted"
              /\ lastError' = [from |-> "saveToSupabase", kind |-> "insert"]
              /\ exitCode' = 1
              /\ UNCHANGED store
    /\ UNCHANGED <<retryCount, requests, waits, warnings, pointsData, snapshot,
                   storeAtStart, clock, valVars, ptsVars,
                   stoVars, infVars>>

(* capture-snapshot.js:473-478, 489-491 and 494-495 -- what the run has    *)
(* printed: the "Snapshot built" lines (four summary figures and the       *)
(* number of categories), the success message, and the message of the      *)
(* error main caught.                                                      *)
RunReport ==
    [built |-> IF snapshot.built
               THEN [totalTvl |-> snapshot.summary.totalTvl,
                     weightedTvl |-> snapshot.summary.weightedTvl,
                     s1RewardsIssued |-> snapshot.summary.s1RewardsIssued,
                     participantCount |-> snapshot.summary.participantCount,
                     categories |-> Len(snapshot.tableCondensed)]
               ELSE NoSnapshot,
     success |-> (phase = "Done"),
     error |-> lastError]

(* Time passes on the capture host. *)
ClockTick ==
    /\ clock < MaxClock
    /\ clock' = clock + 1
    /\ UNCHANGED <<phase, retryCount, requests, waits, lastError, warnings,
                   pointsData, snapshot, store, storeAtStart, exitCode,
                   valVars, ptsVars,
                   stoVars, infVars>>

NextCapture ==
    \/ StartRun
    \/ WarmupApp
    \/ FetchTvlData
    \/ FetchPointsData
    \/ BuildSnapshot
    \/ SaveToSupabase
    \/ ClockTick

SpecCapture == InitCapture /\ [][NextCapture]_vars

(* The phase change of BuildSnapshot: within NextCapture no other step     *)
(* leaves Valuating.                                                       *)
Valuated == phase = "Valuating" /\ phase' = "Persisting"

(* Every awaited step of a started run settles: the requests carry an      *)
(* AbortSignal.timeout, the backoff timers fire, the valuation is          *)
(* synchronous, and the store answers the insert.                          *)
SpecCaptureFair ==
    /\ SpecCapture
    /\ WF_vars(WarmupApp)
    /\ WF_vars(FetchTvlData)
    /\ WF_vars(FetchPointsData)
    /\ WF_phase(Valuated)
    /\ WF_vars(SaveToSupabase)


----------------------------------------------------------------------------
(* The points route: GET of src/app/api/points/route.ts (lines 160-421).   *)
(* The handler runs on one event loop: it runs without interruption up to  *)
(* an await, and the continuations of the awaits of a settled promise run, *)
(* in the order the awaits were made, before any new request or I/O event  *)
(* is handled.                                                             *)

CACHE_TTL == 60 * 60 * 1000     \* route.ts:168, in ms
ROUTE_MAX_RETRIES == 3          \* route.ts:171, MAX_RETRIES

(* The clock advances the model takes: 1 ms, or one ms short of the TTL. *)
TimeSteps == {1, CACHE_TTL - 1}

(* How one page load of fetchWithPuppeteer can end:                        *)
(*   ok         the season program was found and parsed                    *)
(*   404, 429   the upstream status                                        *)
(*   http       another non-2xx status                                     *)
(*   noProgram  "Ethereum season program not found"                        *)
(*   launch     the browser could not be started or the page not loaded    *)
UpstreamOutcomes == {"ok", "404", "429", "http", "noProgram", "launch"}

(* Faulty variant: the handler never sees a fetch in progress. *)
InFlight_Never(fip) == FALSE

(* route.ts:350 -- if (fetchInProgress) *)
InFlight(fip) == fip # NoFetch

(* Faulty variant: an entry is still served at the instant it expires. *)
CacheValid_Inclusive(c, t) == c.data.present /\ t <= c.expires

(* route.ts:339 -- cache.data && Date.now() < cache.expires *)
CacheValid(c, t) == c.data.present /\ t < c.expires

(* Faulty variant: a failed refresh pushes the expiry of the entry forward. *)
CacheAfterFailedFetch_Extends(c, t) ==
    IF c.data.present THEN [c EXCEPT !.expires = t + CACHE_TTL] ELSE c

(* route.ts:393-419 -- the finally block and the catch blocks assign       *)
(* nothing to cache.                                                       *)
CacheAfterFailedFetch(c, t) == c

(* route.ts:341-345 -- the body of a cache hit. *)
HitResponse(c) ==
    [status |-> 200, data |-> c.data, isCached |-> TRUE, isStale |-> FALSE]

(* route.ts:388-392 -- the body after the handler's own fetch. *)
FreshResponse(freshData) ==
    [status |-> 200, data |-> freshData, isCached |-> FALSE, isStale |-> FALSE]

(* route.ts:354-358 -- the body after waiting for another handler's fetch. *)
SharedResponse(freshData) ==
    [status |-> 200, data |-> freshData, isCached |-> TRUE, isStale |-> FALSE]

(* Faulty variant: a failed refresh is always answered with the error. *)
FailureResponse_AlwaysError(c) ==
    [status |-> 500, data |-> NoData, isCached |-> FALSE, isStale |-> FALSE]

(* route.ts:359-371 and 397-419 -- the answer after a failed fetch: the    *)
(* cached data marked stale if there is any, else the error with status    *)
(* 500 (the inner catch rethrows to the outer one, which decides alike).   *)
FailureResponse(c) ==
    IF c.data.present
    THEN [status |-> 200, data |-> c.data, isCached |-> TRUE, isStale |-> TRUE]
    ELSE [status |-> 500, data |-> NoData, isCached |-> FALSE,
          isStale |-> FALSE]

(* Faulty variant: the lock is cleared after the await, inside the try, so *)
(* a failed fetch leaves it set.                                           *)
FetchLockAfter_KeptOnFailure(fip, state) ==
    IF state = "rejected" THEN fip ELSE NoFetch

(* route.ts:393-396 -- finally { fetchInProgress = null }, whichever way   *)
(* the awaited fetch settled.                                              *)
FetchLockAfter(fip, state) == NoFetch

(* A settled promise nothing waits for any more. *)
Collected ==
    [state |-> "collected", retryCount |-> 0, value |-> NoData,
     error |-> "none", startedAt |-> 0]

(* Some settled promise still has continuations to run. *)
MicrotasksPending ==
    \E p \in 1..Len(promises) :
        promises[p].state \in {"fulfilled", "rejected"} /\ awaiting[p] # <<>>

InitPoints ==
    /\ ValIdle
    /\ CapIdle
    /\ store = <<>>
    /\ storeAtStart = <<>>
    /\ PtsIdle
    /\ StoIdle
    /\ InfIdle

(* route.ts:336-379 -- GET from its start to its first await or return. *)
GET(r) ==
    /\ gpc[r].pc = "new"
    /\ \A q \in Req : q < r => gpc[q].pc # "new"   \* numbered as they arrive
    /\ ~MicrotasksPending
    /\ IF CacheValid(cache, now)
       THEN /\ response' = [response EXCEPT ![r] = HitResponse(cache)]
            /\ gpc' = [gpc EXCEPT ![r].pc = "done"]
            /\ UNCHANGED <<fetchInProgress, promises, awaiting, upstreamCalls>>
       ELSE IF InFlight(fetchInProgress)
       THEN /\ gpc' = [gpc EXCEPT ![r] = [pc |-> "awaitShared",
                                          promise |-> fetchInProgress]]
            /\ awaiting' = [awaiting EXCEPT ![fetchInProgress] = Append(@, r)]
            /\ UNCHANGED <<fetchInProgress, promises, response, upstreamCalls>>
       ELSE /\ promises' = Append(promises,
                                  [state |-> "pending", retryCount |-> 0,
                                   value |-> NoData, error |-> "none",
                                   startedAt |-> now])
            /\ fetchInProgress' = Len(promises) + 1
            /\ awaiting' = Append(awaiting, <<r>>)
            /\ gpc' = [gpc EXCEPT ![r] = [pc |-> "awaitOwn",
                                          promise |-> Len(promises) + 1]]
            /\ upstreamCalls' = upstreamCalls + 1
            /\ UNCHANGED response
    /\ UNCHANGED <<cache, now, ticks, filledAt, valVars, capVars,
                   stoVars, infVars>>

(* route.ts:228-334 -- one page load of the fetchWithPuppeteer chain p:    *)
(* a 429 is retried (after a delay) while retries remain; anything else    *)
(* settles the promise.                                                    *)
fetchWithPuppeteer(p) ==
    /\ promises[p].state = "pending"
    /\ ~MicrotasksPending
    /\ \E o \in UpstreamOutcomes :
         IF o = "ok"
         THEN \E n \in 0..MaxPoints :
                promises' = [promises EXCEPT
                   ![p].state = "fulfilled",
                   ![p].value = [present |-> TRUE, totalPoints |-> n,
                                 participantCount |-> n,
                                 timestamp |-> now],
                   ![p].retryCount = 0, ![p].startedAt = 0]
         ELSE IF o = "429" /\ promises[p].retryCount < ROUTE_MAX_RETRIES
         THEN promises' = [promises EXCEPT ![p].retryCount = @ + 1]
         ELSE promises' = [promises EXCEPT ![p].state = "rejected",
                                           ![p].error = o,
                                           ![p].retryCount = 0,
                                           ![p].startedAt = 0]
    /\ UNCHANGED <<cache, fetchInProgress, awaiting, gpc, response, now, ticks,
                   filledAt, upstreamCalls, valVars, capVars,
                   stoVars, infVars>>

(* route.ts:352-372 and 379-419 -- the rest of GET after its await. *)
Resume(r) ==
    LET p == gpc[r].promise IN
    /\ gpc[r].pc \in {"awaitOwn", "awaitShared"}
    /\ promises[p].state \in {"fulfilled", "rejected"}
    /\ Head(awaiting[p]) = r
    /\ awaiting' = [awaiting EXCEPT ![p] = Tail(@)]
    /\ gpc' = [gpc EXCEPT ![r].pc = "done"]
    /\ IF gpc[r].pc = "awaitOwn"
       THEN /\ fetchInProgress' = FetchLockAfter(fetchInProgress,
                                                  promises[p].state)
            /\ IF promises[p].state = "fulfilled"
               THEN /\ cache' = [data |-> promises[p].value,
                                 expires |-> now + CACHE_TTL]
                    /\ filledAt' = now
                    /\ response' = [response EXCEPT
                          ![r] = FreshResponse(promises[p].value)]
               ELSE /\ cache' = CacheAfterFailedFetch(cache, now)
                    /\ response' = [response EXCEPT
                          ![r] = FailureResponse(cache')]
                    /\ UNCHANGED filledAt
       ELSE /\ IF promises[p].state = "fulfilled"
               THEN response' = [response EXCEPT
                       ![r] = SharedResponse(promises[p].value)]
               ELSE response' = [response EXCEPT
                       ![r] = FailureResponse(cache)]
            /\ UNCHANGED <<cache, fetchInProgress, filledAt>>
    /\ promises' = IF Len(awaiting[p]) = 1
                   THEN [promises EXCEPT ![p] = Collected]
                   ELSE promises
    /\ UNCHANGED <<now, ticks, upstreamCalls, valVars, capVars,
                   stoVars, infVars>>

(* Date.now() advances. *)
Tick ==
    /\ ticks < MaxTicks
    /\ \E d \in TimeSteps : now' = now + d
    /\ ticks' = ticks + 1
    /\ UNCHANGED <<cache, fetchInProgress, promises, awaiting, gpc, response,
                   filledAt, upstreamCalls, valVars, capVars,
                   stoVars, infVars>>

NextPoints ==
    \/ \E r \in Req : GET(r)
    \/ \E p \in 1..Len(promises) : fetchWithPuppeteer(p)
    \/ \E r \in Req : Resume(r)
    \/ Tick

SpecPoints == InitPoints /\ [][NextPoints]_vars

(* Every page load ends (the browser calls carry timeouts) and the event   *)
(* loop runs every continuation of a settled promise.                      *)
SpecPointsFair ==
    /\ SpecPoints
    /\ WF_vars(\E p \in 1..Len(promises) : fetchWithPuppeteer(p))
    /\ \A r \in Req : WF_vars(Resume(r))


----------------------------------------------------------------------------
(* The writers of the snapshot stores: the capture script inserting into   *)
(* tvl_snapshots (scripts/capture-snapshot.js), the POST handler of the    *)
(* snapshots route inserting through saveSnapshot, and the local capture   *)
(* script (capture-tvl-data.js) rewriting data/tvl-history.json.  Writers  *)
(* are separate processes or requests and may overlap.                     *)

HALF_SECOND == 500      \* the step of the wall clock, in ms

(* Math.floor(ms / 1000) *)
UnixSeconds(ms) == ms \div 1000

(* The summary and table a writer stores: those of some evaluation. *)
StoreBodies ==
    { [summary |-> calculateSummary(calculateRowData(d), NoPoints),
       tableCondensed |-> formatTableData(calculateRowData(d))] :
         d \in CaptureTvlResponses }

(* capture-tvl-data.js:366-378 -- the entry pushed onto the history. *)
HistoryEntry(snap) ==
    [capturedAtUnix |-> snap.capturedAtUnix, summary |-> snap.summary,
     tableCondensed |-> snap.tableCondensed]

(* The Authorization header of a POST: none, or scheme followed by rest. *)
NoHeader == [present |-> FALSE, scheme |-> "", rest |-> ""]
Secret == "cron-secret"
AuthHeaders ==
    {NoHeader} \cup
    [present : {TRUE}, scheme : {"Bearer ", ""}, rest : {Secret, "guess"}]

(* route.ts (snapshots) POST:307 -- authHeader?.replace('Bearer ', '');    *)
(* the result for no header is undefined, which equals no string.          *)
providedSecret(h) == IF h.present THEN h.rest ELSE "undefined"

(* POST:309 -- CRON_SECRET && providedSecret !== CRON_SECRET *)
Unauthorized(env, h) ==
    env.CRON_SECRET # Unset /\ providedSecret(h) # env.CRON_SECRET

(* The JSON bodies POSTed: capturedAt as the instant (in ms) its ISO text  *)
(* denotes, UNDEF for a missing field.                                     *)
PostBodies ==
    [capturedAt : {UNDEF, 0, 2 * HALF_SECOND}, capturedAtUnix : {UNDEF, 0, 1},
     hasSummary : BOOLEAN, hasTable : BOOLEAN, body : StoreBodies]

(* POST:315 -- !body.capturedAt || !body.summary || !body.tableCondensed *)
MissingFields(b) == b.capturedAt = UNDEF \/ ~b.hasSummary \/ ~b.hasTable

(* POST:322-327 -- the row handed to saveSnapshot. *)
PostedRow(b) ==
    [captured_at_unix |-> IF Truthy(b.capturedAtUnix)
                          THEN b.capturedAtUnix
                          ELSE UnixSeconds(b.capturedAt),
     summary |-> b.body.summary,
     table_condensed |-> b.body.tableCondensed]

ServerEnvs == [CRON_SECRET : {Unset, Secret}, supabaseAdmin : BOOLEAN]

InitStore ==
    /\ ValIdle
    /\ CapIdle
    /\ PtsIdle
    /\ store = <<>>
    /\ storeAtStart = <<>>
    /\ serverEnv \in ServerEnvs
    /\ historyFile = [exists |-> FALSE, rows |-> <<>>]
    /\ wall = 0
    /\ writers = [w \in Writers |-> NoWriter]
    /\ InfIdle

(* capture-snapshot.js:455-471 -- a capture run builds its snapshot. *)
CaptureBuild(w) ==
    /\ writers[w].pc = "idle"
    /\ \E b \in StoreBodies :
         writers' = [writers EXCEPT ![w] =
            [NoWriter EXCEPT
               !.kind = "capture-snapshot", !.pc = "saving",
               !.snapshot = [built |-> TRUE,
                             capturedAtUnix |-> UnixSeconds(wall),
                             summary |-> b.summary,
                             tableCondensed |-> b.tableCondensed]]]
    /\ UNCHANGED <<serverEnv, historyFile, wall, valVars, capVars, ptsVars,
                   infVars>>

(* capture-snapshot.js:172-193 -- its insert succeeds or fails. *)
CaptureSave(w) ==
    /\ writers[w].pc = "saving"
    /\ \E inserted \in BOOLEAN :
         IF inserted
         THEN /\ store' = Append(store, InsertedRow(writers[w].snapshot))
              /\ writers' = [writers EXCEPT ![w].pc = "done", ![w].status = 0]
         ELSE /\ UNCHANGED store
              /\ writers' = [writers EXCEPT ![w].pc = "done", ![w].status = 1]
    /\ UNCHANGED <<serverEnv, historyFile, wall, valVars, ptsVars, phase,
                   retryCount, requests, waits, lastError, warnings,
                   pointsData, snapshot, storeAtStart, exitCode, clock,
                   infVars>>

(* capture-tvl-data.js:339-362 -- the local capture builds its snapshot    *)
(* and reads the history file (no file: an empty history).                 *)
CaptureDataRead(w) ==
    /\ writers[w].pc = "idle"
    /\ \E b \in StoreBodies :
         writers' = [writers EXCEPT ![w] =
            [NoWriter EXCEPT
               !.kind = "capture-tvl-data", !.pc = "writing",
               !.snapshot = [built |-> TRUE,
                             capturedAtUnix |-> UnixSeconds(wall),
                             summary |-> b.summary,
                             tableCondensed |-> b.tableCondensed],
               !.history = IF historyFile.exists THEN historyFile.rows
                                                 ELSE <<>>]]
    /\ UNCHANGED <<serverEnv, historyFile, wall, valVars, capVars, ptsVars,
                   infVars>>

(* capture-tvl-data.js:364-380 -- it pushes its entry onto the history it  *)
(* read and writes the file from that.                                     *)
CaptureDataWrite(w) ==
    /\ writers[w].pc = "writing"
    /\ historyFile' =
          [exists |-> TRUE,
           rows |-> Append(writers[w].history,
                           HistoryEntry(writers[w].snapshot))]
    /\ writers' = [writers EXCEPT ![w].pc = "done", ![w].status = 0]
    /\ UNCHANGED <<serverEnv, wall, valVars, capVars, ptsVars,
                   infVars>>

(* lib/supabase.ts:62-82 and POST:303-348 -- one POST to the snapshots     *)
(* route: 401, 400, or the result of saveSnapshot.                         *)
POST(w) ==
    /\ writers[w].pc = "idle"
    /\ \E h \in AuthHeaders, b \in PostBodies, inserted \in BOOLEAN :
         LET presented == h.present /\ h.scheme = "Bearer "
                          /\ serverEnv.CRON_SECRET # Unset
                          /\ h.rest = serverEnv.CRON_SECRET
             status == IF Unauthorized(serverEnv, h) THEN 401
                       ELSE IF MissingFields(b) THEN 400
                       ELSE IF ~serverEnv.supabaseAdmin \/ ~inserted THEN 500
                       ELSE 200
         IN  /\ writers' = [writers EXCEPT ![w] =
                   [NoWriter EXCEPT !.kind = "post", !.pc = "done",
                                    !.presented = presented,
                                    !.status = status]]
             /\ store' = IF status = 200 THEN Append(store, PostedRow(b))
                                         ELSE store
    /\ UNCHANGED <<serverEnv, historyFile, wall, valVars, ptsVars, phase,
                   retryCount, requests, waits, lastError, warnings,
                   pointsData, snapshot, storeAtStart, exitCode, clock,
                   infVars>>

(* Time passes. *)
WallTick ==
    /\ wall < MaxWall * HALF_SECOND
    /\ wall' = wall + HALF_SECOND
    /\ UNCHANGED <<serverEnv, historyFile, writers, valVars, capVars, ptsVars,
                   infVars>>

NextStore ==
    \/ \E w \in Writers : CaptureBuild(w)
    \/ \E w \in Writers : CaptureSave(w)
    \/ \E w \in Writers : CaptureDataRead(w)
    \/ \E w \in Writers : CaptureDataWrite(w)
    \/ \E w \in Writers : POST(w)
    \/ WallTick

SpecStore == InitStore /\ [][NextStore]_vars

----------------------------------------------------------------------------
(* The inflation route (GET /api/inflation) and the projections the        *)
(* components compute from its response.                                   *)
(*                                                                         *)
(* JavaScript numbers are modelled as exact fractions num/den, or one of   *)
(* the values Infinity and NaN; JSON turns the latter two into null.       *)
(* A growth factor x^(1/d) is computed in fixed point with SCALE steps per *)
(* unit, rounded down, so a daily rate is a whole number of percent.       *)

MaxHistory == 2     \* snapshots in the history
MaxDay == 2         \* calendar days the history spans
MaxValue == 2       \* metric values range over 0..MaxValue
MaxHorizon == 2     \* days a projection looks ahead

SCALE == 100

JsNumber(n, d) == [kind |-> "finite", num |-> n, den |-> d]
JsInfinity == [kind |-> "Infinity", num |-> 0, den |-> 1]
JsNaN == [kind |-> "NaN", num |-> 0, den |-> 1]
JsNull == [kind |-> "null", num |-> 0, den |-> 1]

(* JSON.stringify followed by JSON.parse, on a number. *)
toJSON(x) == IF x.kind = "finite" THEN x ELSE JsNull

(* Math.pow(x, n) for whole x and n >= 0. *)
RECURSIVE Pow(_, _)
Pow(x, n) == IF n = 0 THEN 1 ELSE x * Pow(x, n - 1)

(* Math.max *)
Max(a, b) == IF a >= b THEN a ELSE b

(* SCALE * Math.pow(a / b, 1 / d), rounded down; a >= 0, b > 0, d >= 1. *)
ScaledRoot(a, b, d) ==
    CHOOSE g \in 0..(SCALE * Max(a, 1)) :
        /\ Pow(g, d) * b <= a * Pow(SCALE, d)
        /\ Pow(g + 1, d) * b > a * Pow(SCALE, d)

(* Faulty variant: the period's growth is divided by the days instead of   *)
(* taking the root.                                                        *)
DailyGrowthRate_Linear(latest, oldest, days) ==
    IF oldest = 0
    THEN IF latest = 0 THEN JsNaN ELSE JsInfinity
    ELSE JsNumber(((latest - oldest) * 100) \div (oldest * days), 1)

(* inflation route:156-165 -- (Math.pow(latest / oldest, 1 / days) - 1) *  *)
(* 100, in percent; x / 0 is Infinity, 0 / 0 is NaN.                       *)
DailyGrowthRate(latest, oldest, days) ==
    IF oldest = 0
    THEN IF latest = 0 THEN JsNaN ELSE JsInfinity
    ELSE JsNumber(((ScaledRoot(latest, oldest, days) - SCALE) * 100)
                     \div SCALE, 1)

(* The summaries the history holds: points p, total TVL v, all of it held  *)
(* as hold-nusd (boost 5).                                                 *)
SummaryOf(p, v) ==
    [s1RewardsIssued |-> p, participantCount |-> p, totalTvl |-> v,
     weightedTvl |-> 5 * v, estDailyPoints |-> 5 * v,
     estWeeklyPoints |-> 5 * v * 7, estMonthlyPoints |-> 5 * v * 30]

(* Points and TVL equal, or one of them 0 and the other MaxValue. *)
HistorySummaries ==
    {SummaryOf(x, x) : x \in 0..MaxValue}
       \cup {SummaryOf(0, MaxValue), SummaryOf(MaxValue, 0)}

SECONDS_PER_DAY == 86400

READ_LIMIT == 500   \* GET: getAllSnapshots(500)

(* A snapshot as the route reads it.  capturedAtUnix is in seconds;        *)
(* capturedAt, the ISO string of the same instant (capture-snapshot.js:    *)
(* 464-468), is not kept apart from it.  These are captured at midnight    *)
(* UTC of day 0..MaxDay.                                                   *)
HistorySnapshots ==
    [capturedAtUnix : {d * SECONDS_PER_DAY : d \in 0..MaxDay},
     summary : HistorySummaries]

(* inflation route:35-38 -- the UTC calendar date, as a day number. *)
getCalendarDate(snap) == snap.capturedAtUnix \div SECONDS_PER_DAY

(* inflation route:41-46 -- the dates being whole days, Math.round changes *)
(* nothing.                                                                *)
getCalendarDaysDiff(from, to) == getCalendarDate(to) - getCalendarDate(from)

(* Histories in the order of capture; days are counted from the first     *)
(* capture (the route uses differences of days only).                      *)
Histories ==
    UNION { { h \in [1..n -> HistorySnapshots] :
                /\ n > 0 => h[1].capturedAtUnix = 0
                /\ \A i \in 1..(n - 1) :
                      h[i].capturedAtUnix <= h[i + 1].capturedAtUnix } :
            n \in 0..MaxHistory }

(* historyData.sort((a, b) => a.capturedAtUnix - b.capturedAtUnix): the    *)
(* sort is stable, so a snapshot's place is the number of snapshots that   *)
(* are earlier, or as early and before it in the array.                    *)
SortByTime(h) ==
    LET n == Len(h)
        \* SubSeq keeps the places as a sequence that is computed once
        place == SubSeq([i \in 1..n |->
                           Cardinality({j \in 1..n :
                              \/ h[j].capturedAtUnix < h[i].capturedAtUnix
                              \/ /\ h[j].capturedAtUnix = h[i].capturedAtUnix
                                 /\ j <= i})], 1, n)
    IN  SubSeq([k \in 1..n |-> h[CHOOSE i \in 1..n : place[i] = k]], 1, n)

(* lib/supabase.ts:104-121 -- the first `limit` rows in ascending order of *)
(* captured_at; rows of the same instant come in the order the table holds *)
(* them.                                                                   *)
getAllSnapshots(rows, limit) ==
    LET ordered == SortByTime(rows)
    IN  IF Len(ordered) <= limit THEN ordered ELSE SubSeq(ordered, 1, limit)

(* inflation route:88-101 -- Supabase first, the local file as fallback. *)
HistoryData(src) ==
    LET supabaseSnapshots == getAllSnapshots(src.supabase, READ_LIMIT)
    IN  IF Len(supabaseSnapshots) > 0 THEN supabaseSnapshots
        ELSE IF src.local.exists THEN src.local.rows
        ELSE <<>>

(* Faulty variant: the days are counted inclusively. *)
DaysForCalc_Inclusive(oldest, latest) ==
    getCalendarDaysDiff(oldest, latest) + 1

(* inflation route:115-118 -- Math.max(totalDays, 1) *)
DaysForCalc(oldest, latest) == Max(getCalendarDaysDiff(oldest, latest), 1)

(* Faulty variant: one snapshot is taken to be enough. *)
InsufficientHistory_LessThanOne(historyData) == Len(historyData) < 1

(* inflation route:103 -- historyData.length < 2 *)
InsufficientHistory(historyData) == Len(historyData) < 2

(* inflation route:103-107 *)
InsufficientResponse(historyData) ==
    [status |-> 400, snapshotCount |-> Len(historyData)]

(* inflation route:110-260 -- the analysis of a history, as the client     *)
(* reads it from the JSON body (the formatted and derived figures are      *)
(* left out).                                                              *)
Analysis(historyData) ==
    LET sorted == SortByTime(historyData)
        oldest == sorted[1]
        latest == sorted[Len(sorted)]
        totalDays == getCalendarDaysDiff(oldest, latest)
        daysForCalc == DaysForCalc(oldest, latest)
        pointsIssued == latest.summary.s1RewardsIssued
                           - oldest.summary.s1RewardsIssued
    IN  [status |-> 200,
         dataRange |-> [totalDays |-> totalDays,
                        snapshotCount |-> Len(historyData)],
         currentState |->
            [s1RewardsIssued |-> latest.summary.s1RewardsIssued,
             totalTvl |-> latest.summary.totalTvl,
             weightedTvl |-> latest.summary.weightedTvl],
         inflation |->
            [pointsIssuedInPeriod |-> pointsIssued,
             actualDailyRate |-> toJSON(JsNumber(pointsIssued, daysForCalc))],
         growthRates |->
            [tvlDailyGrowthRate |->
                toJSON(DailyGrowthRate(latest.summary.totalTvl,
                                       oldest.summary.totalTvl, daysForCalc)),
             weightedTvlDailyGrowthRate |->
                toJSON(DailyGrowthRate(latest.summary.weightedTvl,
                                       oldest.summary.weightedTvl,
                                       daysForCalc)),
             pointsDailyGrowthRate |->
                toJSON(DailyGrowthRate(latest.summary.s1RewardsIssued,
                                       oldest.summary.s1RewardsIssued,
                                       daysForCalc))]]

(* The route reads a history out of Supabase, or, Supabase being empty or  *)
(* unreachable, out of the local file if there is one.                     *)
InitInflation ==
    /\ ValIdle
    /\ CapIdle
    /\ PtsIdle
    /\ StoIdle
    /\ store = <<>>
    /\ storeAtStart = <<>>
    /\ \E h \in Histories :
          \/ snapshots = [supabase |-> h, local |-> NoFile]
          \/ snapshots = [supabase |-> <<>>,
                          local |-> [exists |-> TRUE, rows |-> h]]
    /\ inflation = NoResponse
    /\ projection = NoProjection

(* inflation route:84-263 -- GET *)
InflationGET ==
    /\ inflation = NoResponse
    /\ LET historyData == HistoryData(snapshots)
       IN  inflation' = IF InsufficientHistory(historyData)
                        THEN InsufficientResponse(historyData)
                        ELSE Analysis(historyData)
    /\ UNCHANGED <<snapshots, projection, valVars, capVars, ptsVars, stoVars>>

(* Snapshots captured at midnight and at noon UTC of day 0..MaxDay, with   *)
(* points and TVL equal.                                                   *)
StoredSnapshots ==
    [capturedAtUnix : {k * (SECONDS_PER_DAY \div 2) : k \in 0..(2 * MaxDay + 1)},
     summary : {SummaryOf(x, x) : x \in 0..MaxValue}]

(* What a store can hold, in the order it holds it. *)
StoredHistories == UNION { [1..n -> StoredSnapshots] : n \in 0..MaxHistory }

(* A table of one row more than the route reads: captures one second      *)
(* apart, the last of them with other figures than the rest.               *)
LongHistory ==
    [i \in 1..(READ_LIMIT + 1) |->
        [capturedAtUnix |-> i,
         summary |-> IF i > READ_LIMIT THEN SummaryOf(MaxValue, MaxValue)
                                       ELSE SummaryOf(1, 1)]]

(* The route reads whatever the Supabase table or, that being empty, the   *)
(* local file holds.                                                       *)
InitHistory ==
    /\ ValIdle
    /\ CapIdle
    /\ PtsIdle
    /\ StoIdle
    /\ store = <<>>
    /\ storeAtStart = <<>>
    /\ \/ \E h \in StoredHistories \cup {LongHistory} :
             snapshots = [supabase |-> h, local |-> NoFile]
       \/ \E h \in StoredHistories :
             snapshots = [supabase |-> <<>>,
                          local |-> [exists |-> TRUE, rows |-> h]]
    /\ inflation = NoResponse
    /\ projection = NoProjection

NextHistory == InflationGET

SpecHistory == InitHistory /\ [][NextHistory]_vars

(* Exact arithmetic on fractions [num, den] with den > 0, in lowest terms. *)
RECURSIVE Gcd(_, _)
Gcd(a, b) == IF b = 0 THEN (IF a < 0 THEN -a ELSE a) ELSE Gcd(b, a % b)

Frac(n, d) ==
    LET s == IF d < 0 THEN -1 ELSE 1
        g == Gcd(IF n < 0 THEN -n ELSE n, IF d < 0 THEN -d ELSE d)
    IN  [num |-> (s * n) \div g, den |-> (s * d) \div g]

Whole(n) == [num |-> n, den |-> 1]

FAdd(a, b) == Frac(a.num * b.den + b.num * a.den, a.den * b.den)

FSub(a, b) == Frac(a.num * b.den - b.num * a.den, a.den * b.den)

FMul(a, b) ==
    LET x == Frac(a.num, b.den)
        y == Frac(b.num, a.den)
    IN  Frac(x.num * y.num, x.den * y.den)

FDiv(a, b) == FMul(a, Frac(b.den, b.num))

(* Math.pow(1 + rate / 100, days) for a rate in whole percent. *)
GrowthMultiplier(rate, days) == Frac(Pow(100 + rate, days), Pow(100, days))

(* A number read out of the JSON body and used in arithmetic, or passed    *)
(* through `|| 0`: null counts as 0.                                       *)
NumberOrZero(x) == IF x.kind = "finite" THEN Frac(x.num, x.den) ELSE Whole(0)

(* Math.log(m) || 1, for m > 0: the logarithm is 0 at m = 1 and is         *)
(* approximated by 2 (m - 1) / (m + 1) elsewhere, which has its sign.      *)
LogOrOne(m) ==
    IF m = Whole(1) THEN Whole(1)
    ELSE FMul(Whole(2), FDiv(FSub(m, Whole(1)), FAdd(m, Whole(1))))

(* Faulty variant: the multiplier 1 is not told apart, so that its average *)
(* is (1 - 1) / (Math.log(1) || 1) = 0.                                    *)
AvgEmissionMultiplier_NoGuard(m) ==
    IF m.num = 0 THEN Whole(0)
    ELSE FDiv(FSub(m, Whole(1)), LogOrOne(m))

(* Calculator.tsx:202-204, InflationChart:150-152, PointsPredictor:947-954 *)
(* -- m === 1 ? 1 : (m - 1) / (Math.log(m) || 1); Math.log(0) is           *)
(* -Infinity, and -1 / -Infinity is 0.                                     *)
AvgEmissionMultiplier(m) ==
    IF m = Whole(1) THEN Whole(1)
    ELSE IF m.num = 0 THEN Whole(0)
    ELSE FDiv(FSub(m, Whole(1)), LogOrOne(m))

(* The response as a component holds it: the hook keeps null unless the    *)
(* response is ok, and `inflationData?.x || 0` then gives 0.               *)
Field(group, name) ==
    IF inflation.status = 200 THEN inflation[group][name] ELSE JsNull

(* currentState.weightedTvl is a plain number in the body. *)
CurrentState(name) ==
    IF inflation.status = 200 THEN inflation.currentState[name] ELSE 0

(* What a projection leaves on the page, and the status of the response   *)
(* it was computed from (0: none yet).                                     *)
Projected(component, method, days, rate, base, emission, newPoints) ==
    [component |-> component, method |-> method, days |-> days,
     rate |-> rate, base |-> base, emission |-> emission,
     newPoints |-> newPoints, projected |-> FAdd(Whole(base), newPoints),
     status |-> inflation.status]

(* Calculator.tsx:169-210 -- the projected points at TGE. *)
CalculatorProject(method, daysToTge, currentPoints) ==
    /\ projection = NoProjection
    /\ LET pointsDailyGrowthRate ==
              NumberOrZero(Field("growthRates", "pointsDailyGrowthRate")).num
           weightedTvlDailyGrowthRate ==
              NumberOrZero(Field("growthRates",
                                 "weightedTvlDailyGrowthRate")).num
           currentWeightedTvl == CurrentState("weightedTvl")
       IN  IF method = "points"
           THEN LET projectedPointsAtTge ==
                       FMul(Whole(currentPoints),
                            GrowthMultiplier(pointsDailyGrowthRate, daysToTge))
                IN  projection' =
                       [Projected("Calculator", method, daysToTge,
                                  pointsDailyGrowthRate, currentPoints,
                                  Whole(0),
                                  FSub(projectedPointsAtTge,
                                       Whole(currentPoints)))
                          EXCEPT !.projected = projectedPointsAtTge]
           ELSE LET totalGrowthMultiplier ==
                       GrowthMultiplier(weightedTvlDailyGrowthRate, daysToTge)
                    avgEmissionMultiplier ==
                       AvgEmissionMultiplier(totalGrowthMultiplier)
                    projectedNewPoints ==
                       FMul(FMul(Whole(currentWeightedTvl),
                                 avgEmissionMultiplier), Whole(daysToTge))
                IN  projection' =
                       Projected("Calculator", method, daysToTge,
                                 weightedTvlDailyGrowthRate, currentPoints,
                                 Whole(currentWeightedTvl), projectedNewPoints)
    /\ UNCHANGED <<snapshots, inflation, valVars, capVars, ptsVars, stoVars>>

(* InflationChart:142-158 -- the projection point of one day; the chart is *)
(* drawn from a response with data.                                        *)
InflationChartProject(day) ==
    /\ projection = NoProjection
    /\ inflation.status = 200
    /\ LET rate == NumberOrZero(
                      inflation.growthRates.weightedTvlDailyGrowthRate).num
           weightedTvlMultiplier == GrowthMultiplier(rate, day)
           avgEmissionMultiplier ==
              AvgEmissionMultiplier(weightedTvlMultiplier)
           actualDailyRate == NumberOrZero(inflation.inflation.actualDailyRate)
           projectedNewPoints ==
              FMul(FMul(actualDailyRate, avgEmissionMultiplier), Whole(day))
       IN  projection' =
              Projected("InflationChart", "weightedTvl", day, rate,
                        inflation.currentState.s1RewardsIssued,
                        actualDailyRate, projectedNewPoints)
    /\ UNCHANGED <<snapshots, inflation, valVars, capVars, ptsVars, stoVars>>

(* PointsPredictor (Calculator.tsx:893-955) -- the prediction for a target *)
(* date daysBetween days after the data; tvlMode "same" or "auto".         *)
PointsPredictorProject(tvlMode, daysBetween) ==
    /\ projection = NoProjection
    /\ inflation.status = 200
    /\ LET rate == IF tvlMode = "same" THEN 0
                   ELSE NumberOrZero(
                           inflation.growthRates.tvlDailyGrowthRate).num
           currentPoints == inflation.currentState.s1RewardsIssued
           actualDailyRate == NumberOrZero(inflation.inflation.actualDailyRate)
           tvlMultiplier == IF tvlMode = "same" THEN Whole(1)
                            ELSE GrowthMultiplier(rate, daysBetween)
       IN  projection' =
              IF daysBetween <= 0
              THEN Projected("PointsPredictor", tvlMode, 0, rate,
                             currentPoints, actualDailyRate, Whole(0))
              ELSE Projected("PointsPredictor", tvlMode, daysBetween, rate,
                             currentPoints, actualDailyRate,
                             FMul(FMul(actualDailyRate,
                                       AvgEmissionMultiplier(tvlMultiplier)),
                                  Whole(daysBetween)))
    /\ UNCHANGED <<snapshots, inflation, valVars, capVars, ptsVars, stoVars>>

NextInflation ==
    \/ InflationGET
    \/ \E method \in {"points", "weightedTvl"}, daysToTge \in 0..MaxHorizon,
          currentPoints \in 0..MaxPoints :
          CalculatorProject(method, daysToTge, currentPoints)
    \/ \E day \in 1..MaxHorizon : InflationChartProject(day)
    \/ \E tvlMode \in {"same", "auto"}, daysBetween \in 0..MaxHorizon :
          PointsPredictorProject(tvlMode, daysBetween)

SpecInflation == InitInflation /\ [][NextInflation]_vars

----------------------------------------------------------------------------
(* Properties of the points route (checked under SpecPoints). *)

PendingFetches == {p \in 1..Len(promises) : promises[p].state = "pending"}

Waiting(r) == gpc[r].pc \in {"awaitOwn", "awaitShared"}

(* The request r leaves its await in this step. *)
Resumes(r) == Waiting(r) /\ gpc'[r].pc = "done"

(* The request r runs the start of GET in this step. *)
Arrives(r) == gpc[r].pc = "new" /\ gpc'[r].pc # "new"

(* C3: at most one upstream points fetch (fetchWithPuppeteer call chain)   *)
(* is outstanding at any time, whatever the interleaving of GET requests:  *)
(* every started fetch but at most one has settled, at most one request    *)
(* is the starter of an unsettled fetch, and every request that waits on   *)
(* an unsettled fetch waits on that one, which is fetchInProgress.         *)
C3_OneOutstandingFetch ==
    /\ Cardinality(PendingFetches) <= 1
    /\ upstreamCalls = Len(promises)
    /\ \A p \in PendingFetches : fetchInProgress = p
    /\ \A r \in Req :
         (Waiting(r) /\ gpc[r].promise \in PendingFetches)
            => gpc[r].promise = fetchInProgress
    /\ Cardinality({r \in Req : gpc[r].pc = "awaitOwn"
                                /\ gpc[r].promise \in PendingFetches}) <= 1

(* A second request waits on the fetch the first one started, and only  *)
(* one upstream fetch was made.                                         *)
C3_Witness ==
    \E r1, r2 \in Req :
        /\ gpc[r1].pc = "awaitOwn"
        /\ gpc[r2].pc = "awaitShared"
        /\ gpc[r2].promise = gpc[r1].promise
        /\ promises[gpc[r1].promise].state = "pending"
        /\ upstreamCalls = 1

(* C4: a GET whose refresh fails (its own fetch or the one it waited on)   *)
(* answers, when the cache was filled by some earlier successful fetch,    *)
(* with status 200, the cached data and isStale = TRUE; it answers with    *)
(* status 500 only when the cache has never been filled; and no other GET  *)
(* answers with status 500.                                                *)
C4_StaleOnFailedRefresh ==
    [][\A r \in Req :
         /\ (Resumes(r) /\ promises[gpc[r].promise].state = "rejected")
               => IF filledAt > 0
                  THEN /\ response'[r].status = 200
                       /\ response'[r].isStale
                       /\ response'[r].data = cache.data
                       /\ response'[r].data.present
                  ELSE response'[r].status = 500
         /\ (response'[r].status = 500 /\ response[r].status # 500)
               => /\ filledAt = 0
                  /\ Resumes(r)
                  /\ promises[gpc[r].promise].state = "rejected"]_vars

(* One request got the error before the cache was ever filled, and a   *)
(* later one got the stale data after a failed refresh.                *)
C4_Witness ==
    \E r1, r2 \in Req :
        /\ response[r1].status = 500
        /\ response[r2].status = 200
        /\ response[r2].isStale
        /\ response[r2].data = cache.data
        /\ filledAt > 0

(* C5: the cache (data and expiry) changes only in the step in which the   *)
(* request that started an upstream fetch resumes from its successful      *)
(* completion, and then it holds the fetched data; a failed fetch, a       *)
(* cache hit and a request waiting on another's fetch leave it unchanged.  *)
C5_CacheWrittenOnlyOnSuccess ==
    [][cache' # cache =>
         \E r \in Req :
            /\ gpc[r].pc = "awaitOwn"
            /\ Resumes(r)
            /\ promises[gpc[r].promise].state = "fulfilled"
            /\ cache'.data = promises[gpc[r].promise].value]_vars

(* After the cache was filled and had expired, a refresh failed, one    *)
(* request waited on another's fetch and one was served from the cache: *)
(* the entry is still the one written at the fill.                      *)
C5_Witness ==
    /\ filledAt > 0
    /\ cache.data.present
    /\ cache.expires = filledAt + CACHE_TTL
    /\ now >= cache.expires
    /\ \E r \in Req : response[r].status = 200 /\ response[r].isStale

(* C6: once the cache was filled at time t = filledAt, a GET that starts   *)
(* at a time before t + CACHE_TTL is answered at once with the cached data *)
(* and isCached = TRUE, starts no upstream fetch and waits on none; a GET  *)
(* that starts at or after t + CACHE_TTL with no fetch in flight starts a  *)
(* new upstream fetch.                                                     *)
C6_FreshUntilTtl ==
    [][\A r \in Req :
         (Arrives(r) /\ filledAt > 0)
            => IF now < filledAt + CACHE_TTL
               THEN /\ gpc'[r].pc = "done"
                    /\ response'[r].status = 200
                    /\ response'[r].data = cache.data
                    /\ response'[r].isCached
                    /\ ~response'[r].isStale
                    /\ upstreamCalls' = upstreamCalls
                    /\ promises' = promises
                    /\ fetchInProgress' = fetchInProgress
               ELSE PendingFetches = {}
                      => /\ gpc'[r].pc = "awaitOwn"
                         /\ upstreamCalls' = upstreamCalls + 1
                         /\ fetchInProgress' = Len(promises')
                         /\ promises'[Len(promises')].state = "pending"]_vars

(* One request was served from the cache without waiting, one ms before *)
(* the entry expired, and the next one, at the expiry, started a fetch. *)
C6_Witness ==
    \E r1, r2 \in Req :
        /\ filledAt > 0
        /\ gpc[r1] = [pc |-> "done", promise |-> NoFetch]
        /\ response[r1].status = 200
        /\ response[r1].isCached
        /\ response[r1].data = cache.data
        /\ gpc[r2].pc = "awaitOwn"
        /\ promises[gpc[r2].promise].state = "pending"
        /\ promises[gpc[r2].promise].startedAt = filledAt + CACHE_TTL
        /\ now = filledAt + CACHE_TTL

----------------------------------------------------------------------------
(* Properties of the capture run (checked under SpecCapture). *)

(* The store holds what it held when the run started plus one row. *)
AppendedOne ==
    /\ Len(store) = Len(storeAtStart) + 1
    /\ SubSeq(store, 1, Len(storeAtStart)) = storeAtStart

(* Nothing after the TVL fetch has happened in this run. *)
NothingAfterTvl ==
    /\ requests.points = 0
    /\ rowData = InitRowData
    /\ ~snapshot.built
    /\ store = storeAtStart

(* C1: a run whose TVL fetch succeeded and whose points fetch failed goes *)
(* on (with a warning): the points failure never aborts it, the snapshot  *)
(* it builds has s1RewardsIssued = 0 and participantCount = 0, and once   *)
(* the store has accepted the insert the run has ended with status 0 and  *)
(* exactly that one snapshot appended.                                    *)
C1_PointsFailureNotFatal ==
    "points" \in warnings =>
       /\ pointsData = NoPoints
       /\ phase \in {"Valuating", "Persisting", "Done", "Aborted"}
       /\ phase = "Aborted" => lastError.from = "saveToSupabase"
       /\ snapshot.built =>
            /\ snapshot.summary.s1RewardsIssued = 0
            /\ snapshot.summary.participantCount = 0
       /\ phase = "Done" =>
            /\ exitCode = 0
            /\ AppendedOne
            /\ store[Len(store)] = InsertedRow(snapshot)
            /\ store[Len(store)].summary.s1RewardsIssued = 0
            /\ store[Len(store)].summary.participantCount = 0

(* C1 witness: a finished run whose points fetch failed on all three      *)
(* requests and whose snapshot was appended after an earlier one.         *)
C1_Witness ==
    /\ phase = "Done"
    /\ "points" \in warnings
    /\ requests.points = POINTS_MAX_RETRIES + 1
    /\ Len(store) = 2
    /\ store[2].summary.totalTvl > 0

(* C2: when the TVL fetch has failed for good (its last request failed),  *)
(* the run is aborted with exit status 1, no points request was made, no  *)
(* valuation ran, no snapshot was built and the store is as it was when   *)
(* the run started; and none of these steps starts before a TVL request   *)
(* has succeeded.                                                         *)
C2_TvlFailureAborts ==
    /\ lastError.from = "fetchTvlData" =>
          /\ phase = "Aborted"
          /\ exitCode = 1
          /\ requests.tvl >= 1
          /\ NothingAfterTvl
    /\ phase \in {"Idle", "Warmup", "FetchingTvl"} => NothingAfterTvl

(* C2 witness: a run aborted after all five TVL requests failed, with an  *)
(* earlier snapshot in the store.                                         *)
C2_Witness ==
    /\ phase = "Aborted"
    /\ lastError.from = "fetchTvlData"
    /\ requests.tvl = TVL_MAX_RETRIES + 1
    /\ Len(store) = 1


----------------------------------------------------------------------------
(* Properties of the row valuation (checked under SpecVal). *)

(* The sum of f over the ids in S. *)
SumOver(S, f) ==
    SumSeq([i \in 1..Len(ScriptRows) |->
              IF ScriptRows[i].id \in S THEN f[ScriptRows[i].id] ELSE 0])

Boosts == 0..MaxBoost
OptBoosts == {UNDEF} \cup Boosts

(* The ids the row table marks active or locked, read off the table. *)
IncludedIds(rowOf) ==
    {id \in RowIds : rowOf[id].status \in {"active", "locked"}}

ExcludedIds(rowOf) == {id \in RowIds : rowOf[id].status = "excluded"}

NotIncludedIds(rowOf) ==
    {id \in RowIds : rowOf[id].status \in {"display", "excluded"}}

(* C7: a row whose status is excluded has weighted value 0 and share 0,   *)
(* whatever its raw amount and boost, in the capture script               *)
(* (calculateRowData) and in the TVL table (getWeightedTvl,               *)
(* getSharePercent).                                                      *)
C7_ExcludedIsZero ==
    /\ \A id \in RowIds :
         rowData[id].status = "excluded" =>
            rowData[id].weightedTvl = 0 /\ rowData[id].share.num = 0
    /\ LET total == TotalWeighted(rowData)
       IN  \A id \in ExcludedIds(ScriptRow), b \in Boosts, bb \in Boosts \ {0} :
             LET r == [rowData[id] EXCEPT !.boost = b, !.baseBoost = bb]
                 w == RowWeightedTvl(r)
             IN  /\ w = 0
                 /\ RowShare([r EXCEPT !.weightedTvl = w], total).num = 0
    /\ \A id \in ExcludedIds(LibRow), b \in OptBoosts, bb \in OptBoosts :
         LET row == [LibRow[id] EXCEPT !.boost = b, !.baseBoost = bb]
         IN  /\ getWeightedTvl(uiRowData, row) = 0
             /\ getSharePercent(uiRowData, uiRender.totalWeightedTvl,
                                 row).num = 0

(* C7 witness: both evaluations have run on a response in which an        *)
(* excluded row has a positive raw amount and the total is positive.      *)
C7_Witness ==
    /\ vpc.script /\ vpc.ui
    /\ rowData["pt-nusd-feb26"].tvlAmount > 0
    /\ ParsedOrZero(uiRowData["pt-nusd-feb26"].tvlAmount) > 0
    /\ summary.weightedTvl > 0
    /\ uiRender.totalWeightedTvl > 0

(* C8: the summary's totalTvl and weightedTvl are the sums of tvlAmount   *)
(* and weightedTvl over exactly the active and locked rows, and changing  *)
(* the raw amount of a display or excluded row changes neither total; the *)
(* same holds of the TVL table's totalRawTvl and totalWeightedTvl.        *)
C8_TotalsOverIncludedRows ==
    /\ vpc.script =>
         LET inc == IncludedIds(ScriptRow)
         IN  /\ summary.totalTvl =
                   SumOver(inc, [id \in RowIds |-> rowData[id].tvlAmount])
             /\ summary.weightedTvl =
                   SumOver(inc, [id \in RowIds |-> rowData[id].weightedTvl])
             /\ \A id \in NotIncludedIds(ScriptRow), v \in {0, MaxAmount + 1} :
                  LET r == [rowData[id] EXCEPT !.tvlAmount = Pct(v, 100)]
                      rd == [rowData EXCEPT
                               ![id] = [r EXCEPT
                                          !.weightedTvl = RowWeightedTvl(r)]]
                      s == calculateSummary(rd, pointsData)
                  IN  /\ s.totalTvl = summary.totalTvl
                      /\ s.weightedTvl = summary.weightedTvl
    /\ vpc.ui =>
         LET inc == IncludedIds(LibRow)
             w == [id \in RowIds |->
                     getWeightedTvl(uiRowData, LibRow[id])]
             a == [id \in RowIds |-> ParsedOrZero(uiRowData[id].tvlAmount)]
         IN  /\ uiRender.totalWeightedTvl = SumOver(inc, w)
             /\ uiRender.totalRawTvl = SumOver(inc, a)
             /\ \A id \in NotIncludedIds(LibRow), v \in {0, MaxAmount + 1} :
                  LET ui == [uiRowData EXCEPT
                               ![id].tvlAmount = toString(Pct(v, 100))]
                  IN  Render(ui) = uiRender

(* C8 witness: an evaluated response with a positive display amount, a    *)
(* positive excluded amount and positive totals.                          *)
C8_Witness ==
    /\ vpc.script /\ vpc.ui
    /\ rowData["pt-snusd-mar26"].tvlAmount > 0
    /\ rowData["yt-nusd-feb26"].tvlAmount > 0
    /\ summary.totalTvl > 0
    /\ summary.weightedTvl > summary.totalTvl
    /\ uiRender.totalRawTvl > 0

(* C9 (as claimed): the share of a row is 100 * weightedValue /           *)
(* totalWeighted for active and locked rows, and 0 for every display or   *)
(* excluded row, in calculateRowData and in getSharePercent.              *)
C9_ShareOnlyForIncluded ==
    /\ vpc.script =>
         \A id \in RowIds :
            IF id \in IncludedIds(ScriptRow)
            THEN summary.weightedTvl > 0 =>
                   rowData[id].share = [num |-> 100 * rowData[id].weightedTvl,
                                        den |-> summary.weightedTvl]
            ELSE rowData[id].share.num = 0
    /\ vpc.ui =>
         \A id \in RowIds :
            LET row == LibRow[id]
                sh == getSharePercent(uiRowData, uiRender.totalWeightedTvl, row)
            IN  IF id \in IncludedIds(LibRow)
                THEN uiRender.totalWeightedTvl > 0 =>
                       sh = [num |-> 100 * getWeightedTvl(uiRowData, row),
                             den |-> uiRender.totalWeightedTvl]
                ELSE sh.num = 0

(* C10: when the total weighted TVL is positive, every active or locked   *)
(* row's share is taken over the sum of the active and locked rows'       *)
(* weighted values, so these shares add up to 100.                        *)
C10_SharesSumTo100 ==
    vpc.script =>
        LET inc == IncludedIds(ScriptRow)
            total == SumOver(inc, [id \in RowIds |-> rowData[id].weightedTvl])
        IN  total > 0 =>
              /\ \A id \in inc : rowData[id].share.den = total
              /\ SumOver(inc, [id \in RowIds |-> rowData[id].share.num])
                    = 100 * total

(* C10 witness: an evaluation in which two included rows of different     *)
(* weight share a positive total while a display row has weight too.      *)
C10_Witness ==
    /\ vpc.script
    /\ rowData["hold-nusd"].weightedTvl > 0
    /\ rowData["pendle-fee-nusd"].weightedTvl > 0
    /\ rowData["yt-nusd-feb26"].weightedTvl > 0
    /\ rowData["hold-nusd"].share.num # rowData["pendle-fee-nusd"].share.num

(* C11: when every active or locked row has raw amount 0, the total       *)
(* weighted TVL is 0 and every row's share is exactly 0, whatever the     *)
(* amounts of the display and excluded rows; no share is ever a quotient  *)
(* with denominator 0.  In calculateRowData and in getSharePercent.       *)
C11_ZeroTotalZeroShares ==
    /\ vpc.script =>
         /\ \A id \in RowIds : rowData[id].share.den # 0
         /\ (\A id \in IncludedIds(ScriptRow) : rowData[id].tvlAmount = 0)
               => /\ summary.weightedTvl = 0
                  /\ \A id \in RowIds : rowData[id].share = ZeroShare
    /\ vpc.ui =>
         LET sh == [id \in RowIds |->
                      getSharePercent(uiRowData, uiRender.totalWeightedTvl,
                                      LibRow[id])]
         IN  /\ \A id \in RowIds : sh[id].den # 0
             /\ (\A id \in IncludedIds(LibRow) :
                    ParsedOrZero(uiRowData[id].tvlAmount) = 0)
                   => /\ uiRender.totalWeightedTvl = 0
                      /\ \A id \in RowIds : sh[id] = ZeroShare

(* C11 witness: both evaluations ran on a response whose included rows    *)
(* are all 0 while an excluded row and a boosted display row are not.     *)
C11_Witness ==
    /\ vpc.script /\ vpc.ui
    /\ summary.weightedTvl = 0
    /\ uiRender.totalWeightedTvl = 0
    /\ rowData["pt-nusd-feb26"].tvlAmount > 0
    /\ rowData["curve-nusd-breakdown"].weightedTvl > 0
    /\ getWeightedTvl(uiRowData, LibRow["curve-nusd-breakdown"]) > 0

----------------------------------------------------------------------------
(* Properties of the snapshot stores (checked under SpecStore). *)

(* Every element of the sequence old is an element of the sequence new. *)
AllKept(old, new) ==
    \A i \in 1..Len(old) : \E j \in 1..Len(new) : new[j] = old[i]

(* C13 (as claimed): the snapshot stores are append-only: in every step   *)
(* of any writer -- the Supabase insert of a capture run, a POST to the   *)
(* snapshots route, the local capture rewriting the history file -- every *)
(* snapshot stored before is still stored unchanged, and the number of    *)
(* stored snapshots does not decrease.                                    *)
C13_AppendOnly ==
    [][/\ Len(store') >= Len(store)
       /\ AllKept(store, store')
       /\ Len(historyFile'.rows) >= Len(historyFile.rows)
       /\ AllKept(historyFile.rows, historyFile'.rows)]_vars

(* C14 (as claimed): of any two snapshots in a store, the one inserted    *)
(* later has the strictly greater capturedAtUnix, also when two captures  *)
(* complete within the same second or overlap.                            *)
C14_StrictlyIncreasingTime ==
    /\ \A i, j \in 1..Len(store) :
          i < j => store[i].captured_at_unix < store[j].captured_at_unix
    /\ \A i, j \in 1..Len(historyFile.rows) :
          i < j => historyFile.rows[i].capturedAtUnix
                      < historyFile.rows[j].capturedAtUnix

(* C19 (as claimed): in every configuration of the server, a POST that    *)
(* does not present the shared secret as its bearer token is answered     *)
(* with status 401 and leaves the store unchanged.                        *)
C19_PostNeedsSecret ==
    [][\A w \in Writers :
         (writers[w].pc = "idle" /\ writers'[w].kind = "post"
            /\ ~writers'[w].presented)
           => writers'[w].status = 401 /\ store' = store]_vars

----------------------------------------------------------------------------
(* Properties of the inflation route and the projections (checked under    *)
(* SpecInflation).                                                         *)

(* C15: when the history available to the inflation endpoint has fewer     *)
(* than two snapshots, the answer of GET is the error outcome: status 400  *)
(* with the number of snapshots, and nothing else (no growth rate, no      *)
(* inflation figure, no computed result).                                  *)
C15_InsufficientHistory ==
    (inflation # NoResponse /\ Len(HistoryData(snapshots)) < 2)
       => /\ inflation.status = 400
          /\ inflation.snapshotCount = Len(HistoryData(snapshots))
          /\ DOMAIN inflation = {"status", "snapshotCount"}

(* GET has answered a history of exactly one snapshot. *)
C15_Witness ==
    /\ inflation # NoResponse
    /\ Len(HistoryData(snapshots)) = 1
    /\ inflation.status = 400

(* The oldest and the latest snapshot of a history of two or more. *)
Oldest == SortByTime(HistoryData(snapshots))[1]

Latest == SortByTime(HistoryData(snapshots))[Len(HistoryData(snapshots))]

(* The metric a method of the calculator projects from. *)
MetricOf(method) ==
    IF method = "points" THEN "s1RewardsIssued" ELSE "weightedTvl"

RateOf(method) ==
    IF method = "points" THEN "pointsDailyGrowthRate"
    ELSE "weightedTvlDailyGrowthRate"

(* C16: for a history whose oldest snapshot has a metric value of 0, the   *)
(* growth rate of that metric in the answer is not a number, and the       *)
(* calculator, projecting from that answer by that metric, does not use a  *)
(* growth rate of 0%.                                                      *)
C16_ZeroBaseNotZeroGrowth ==
    \A method \in {"points", "weightedTvl"} :
       (/\ inflation.status = 200
        /\ Oldest.summary[MetricOf(method)] = 0)
          => /\ inflation.growthRates[RateOf(method)].kind # "finite"
             /\ (/\ projection.component = "Calculator"
                 /\ projection.status = 200
                 /\ projection.method = method)
                   => projection.rate # 0

(* C17: a TVL-scaled projection whose daily growth rate is 0 adds exactly  *)
(* its daily emission times its number of days, in each of the three       *)
(* components that compute one.                                            *)
C17_ZeroRateLinear ==
    (/\ projection.component \in {"Calculator", "InflationChart",
                                  "PointsPredictor"}
     /\ projection.method # "points"
     /\ projection.rate = 0)
       => projection.newPoints
             = FMul(projection.emission, Whole(projection.days))

(* The predictor, on its observed rate, has projected at a rate of 0 over  *)
(* one day or more from a positive emission.                               *)
C17_Witness ==
    /\ projection.component = "PointsPredictor"
    /\ projection.method = "auto"
    /\ projection.rate = 0
    /\ projection.days > 0
    /\ projection.emission.num > 0

----------------------------------------------------------------------------
(* Properties of the TVL route (checked under SpecRoute). *)

(* C20: whatever the explorer calls give, failed calls included, the raw   *)
(* amount of every row of the evaluation is at least 0, the unlocked Curve *)
(* LP amount and the hold amounts among them.                              *)
C20_RawAmountsNonNegative ==
    vpc.script => \A id \in RowIds : rowData[id].tvlAmount >= 0

----------------------------------------------------------------------------
(* Further properties of the capture run (checked under SpecCapture). *)

(* C21: a capture run issues at most 1 + 4 requests in fetchTvlData and at *)
(* most 1 + 2 in fetchPointsData; the wait before retry k (k = 0, 1, ...)  *)
(* is 10 s * 2^k; and a call has ended, with data or with its error, once  *)
(* its last allowed request is made.                                       *)
C21_BoundedBackoff ==
    /\ requests.tvl <= 5
    /\ requests.points <= 3
    /\ \A k \in 1..Len(waits.tvl) : waits.tvl[k] = 10000 * Pow2(k - 1)
    /\ \A k \in 1..Len(waits.points) : waits.points[k] = 10000 * Pow2(k - 1)
    /\ Len(waits.tvl) <= 4
    /\ Len(waits.points) <= 2
    /\ phase = "FetchingTvl" => requests.tvl < 5
    /\ phase = "FetchingPoints" => requests.points < 3

(* Both calls have used every attempt: five TVL requests, the last one     *)
(* answered, then three failed points requests.                            *)
C21_Witness ==
    /\ requests.tvl = 5
    /\ waits.tvl = <<10000, 20000, 40000, 80000>>
    /\ requests.points = 3
    /\ waits.points = <<10000, 20000>>
    /\ phase = "Valuating"

(* C22: fetchTvlData gives up while attempts remain only on a failure that *)
(* is neither a request timeout, nor a generic network failure, nor the    *)
(* warming-up response: those three are retried.                           *)
C22_RetryableRetried ==
    [][(/\ phase = "FetchingTvl"
        /\ phase' = "Aborted"
        /\ retryCount < TVL_MAX_RETRIES)
          => lastError'.kind \notin {"timeout", "network", "railway"}]_vars

(* The phase changes main() can make. *)
PhaseOrder ==
    { <<"Idle", "Warmup">>, <<"Warmup", "FetchingTvl">>,
      <<"FetchingTvl", "FetchingPoints">>, <<"FetchingTvl", "Aborted">>,
      <<"FetchingPoints", "Valuating">>, <<"Valuating", "Persisting">>,
      <<"Persisting", "Done">>, <<"Persisting", "Aborted">> }

(* C23: a capture run changes phase only along Idle, Warmup, FetchingTvl,  *)
(* FetchingPoints, Valuating, Persisting, Done, or into Aborted from the   *)
(* TVL fetch or the save; a failed warmup goes on to the TVL fetch; the    *)
(* points fetch starts only with a fetched TVL response and no TVL error;  *)
(* the save starts only with the valuation of that response; and every     *)
(* started run ends, in Done or in Aborted, where it stays.                *)
C23_PhaseOrder ==
    /\ [][/\ phase' # phase => <<phase, phase'>> \in PhaseOrder
          /\ phase = "Warmup" /\ "warmup" \in warnings' =>
                phase' = "FetchingTvl"
          /\ phase' = "FetchingPoints" /\ phase # "FetchingPoints" =>
                /\ tvlData' \in CaptureTvlResponses
                /\ lastError' = NoError
          /\ phase' = "Persisting" /\ phase # "Persisting" =>
                /\ rowData' = calculateRowData(tvlData)
                /\ snapshot'.built
                /\ lastError' = NoError]_vars
    /\ (phase = "Warmup") ~> (phase \in {"Done", "Aborted"})

(* A run whose warmup failed has reached Done. *)
C23_Witness ==
    /\ phase = "Done"
    /\ "warmup" \in warnings
    /\ requests.tvl > 1

(* C24: when the store fails the append, the run ends with exit status 1   *)
(* and without the success message, and what it reports holds the snapshot *)
(* it had computed, as it would have been inserted.                        *)
C24_FailedSaveReported ==
    lastError.from = "saveToSupabase" =>
       /\ phase = "Aborted"
       /\ exitCode = 1
       /\ ~RunReport.success
       /\ store = storeAtStart
       /\ RunReport.built = InsertedRow(snapshot)

----------------------------------------------------------------------------
(* Properties of the inflation route over the stores it reads (checked     *)
(* under SpecHistory).                                                     *)

(* C25: the day count the inflation computation divides by is the          *)
(* difference of the UTC calendar dates of the oldest and the latest       *)
(* snapshot, or 1 when that is less than 1: never 0 or negative, and 1 for *)
(* two snapshots of the same calendar date.                                *)
C25_DaysForCalc ==
    inflation.status = 200 =>
       LET diff == (Latest.capturedAtUnix \div 86400)
                      - (Oldest.capturedAtUnix \div 86400)
           pointsIssued == Latest.summary.s1RewardsIssued
                              - Oldest.summary.s1RewardsIssued
       IN  /\ inflation.dataRange.totalDays = diff
           /\ inflation.inflation.actualDailyRate.kind = "finite"
           /\ inflation.inflation.actualDailyRate.den >= 1
           /\ inflation.inflation.actualDailyRate.num = pointsIssued
           /\ inflation.inflation.actualDailyRate.den
                 = (IF diff >= 1 THEN diff ELSE 1)

(* Two snapshots of the same calendar date, at midnight and at noon, were  *)
(* analysed as one day apart; and so were two of different dates.          *)
C25_Witness ==
    /\ inflation.status = 200
    /\ Oldest.capturedAtUnix = 0
    /\ Latest.capturedAtUnix = 43200
    /\ Latest.summary.s1RewardsIssued > Oldest.summary.s1RewardsIssued
    /\ inflation.inflation.actualDailyRate.den = 1

(* C26: the oldest snapshot the endpoint takes is one of smallest          *)
(* capturedAtUnix and the latest one of largest, whatever the order the    *)
(* history comes in: the current state and the points issued are those of  *)
(* every snapshot of largest and every snapshot of smallest capturedAtUnix *)
(* of the history.                                                         *)
C26_OrderIndependent ==
    inflation.status = 200 =>
       LET h == HistoryData(snapshots)
           first(i) == \A j \in 1..Len(h) :
                          h[i].capturedAtUnix <= h[j].capturedAtUnix
           last(i) == \A j \in 1..Len(h) :
                         h[j].capturedAtUnix <= h[i].capturedAtUnix
       IN  \A o, l \in 1..Len(h) :
              (first(o) /\ last(l)) =>
                 /\ inflation.currentState.s1RewardsIssued
                       = h[l].summary.s1RewardsIssued
                 /\ inflation.currentState.totalTvl = h[l].summary.totalTvl
                 /\ inflation.inflation.pointsIssuedInPeriod
                       = h[l].summary.s1RewardsIssued
                            - h[o].summary.s1RewardsIssued

(* C30: the snapshot the endpoint uses as latest is a most recently        *)
(* captured snapshot of the Supabase table it read, however many rows the  *)
(* table holds.                                                            *)
C30_LatestIsMostRecent ==
    (inflation.status = 200 /\ Len(snapshots.supabase) > 0) =>
       \E l \in 1..Len(snapshots.supabase) :
          /\ \A j \in 1..Len(snapshots.supabase) :
                snapshots.supabase[j].capturedAtUnix
                   <= snapshots.supabase[l].capturedAtUnix
          /\ inflation.currentState.s1RewardsIssued
                = snapshots.supabase[l].summary.s1RewardsIssued
          /\ inflation.currentState.totalTvl
                = snapshots.supabase[l].summary.totalTvl

----------------------------------------------------------------------------
(* Further properties of the snapshot stores (checked under SpecStore). *)

(* The runs of a script that have ended with a successful append. *)
Succeeded(kind) ==
    {w \in Writers : /\ writers[w].kind = kind
                     /\ writers[w].pc = "done"
                     /\ writers[w].status = 0}

(* C27: however capture runs overlap, the store holds the snapshot of      *)
(* every run that reached a successful append, and as many snapshots as    *)
(* there were such runs: in the Supabase table for capture-snapshot.js, in *)
(* the history file for capture-tvl-data.js.                               *)
C27_NoLostAppend ==
    /\ \A w \in Succeeded("capture-snapshot") :
          \E i \in 1..Len(store) : store[i] = InsertedRow(writers[w].snapshot)
    /\ Len(store) >= Cardinality(Succeeded("capture-snapshot"))
    /\ \A w \in Succeeded("capture-tvl-data") :
          \E i \in 1..Len(historyFile.rows) :
             historyFile.rows[i] = HistoryEntry(writers[w].snapshot)
    /\ Len(historyFile.rows) >= Cardinality(Succeeded("capture-tvl-data"))

----------------------------------------------------------------------------
(* Further properties of the points route (checked under SpecPointsFair). *)

(* C28: whenever a handler can run, fetchInProgress is set only to a fetch *)
(* that is still running (between the end of a fetch and the handlers'     *)
(* continuations no handler starts); the handler that started a fetch      *)
(* clears it when the fetch has ended, by success or by failure; a GET     *)
(* that finds no valid cache entry and no running fetch starts a fresh     *)
(* upstream fetch; and every GET that waits for a fetch gets its answer.   *)
C28_FetchLockCleared ==
    /\ []((InFlight(fetchInProgress) /\ ~MicrotasksPending)
             => promises[fetchInProgress].state = "pending")
    /\ [][\A r \in Req :
            /\ (gpc[r].pc = "awaitOwn" /\ Resumes(r))
                  => ~InFlight(fetchInProgress')
            /\ (Arrives(r) /\ ~CacheValid(cache, now) /\ PendingFetches = {})
                  => /\ upstreamCalls' = upstreamCalls + 1
                     /\ gpc'[r].pc = "awaitOwn"
                     /\ promises'[fetchInProgress'].state = "pending"]_vars
    /\ \A r \in Req : Waiting(r) ~> (gpc[r].pc = "done")

(* After a failed fetch that left the cache empty, a later GET has started *)
(* a second upstream fetch, which is running.                              *)
C28_Witness ==
    \E r1, r2 \in Req :
        /\ response[r1].status = 500
        /\ gpc[r2].pc = "awaitOwn"
        /\ upstreamCalls = 2
        /\ promises[fetchInProgress].state = "pending"

----------------------------------------------------------------------------
(* The row tables of the capture script and of the TVL table               *)
(* (checked under SpecVal).                                                *)

(* C29 (as claimed): the capture script's row table and the TVL table's    *)
(* row table give every row id the same status, boost and baseBoost, so    *)
(* once both have valued the same TVL response every row's weighted TVL    *)
(* and the total weighted TVL of the snapshot equal those the table shows. *)
C29_SameRowTables ==
    (vpc.script /\ vpc.ui) =>
        /\ \A id \in RowIds :
              /\ ScriptRow[id].status = LibRow[id].status
              /\ ScriptRow[id].boost = LibRow[id].boost
              /\ ScriptRow[id].baseBoost = LibRow[id].baseBoost
        /\ \A id \in RowIds :
              rowData[id].weightedTvl = getWeightedTvl(uiRowData, LibRow[id])
        /\ summary.weightedTvl = uiRender.totalWeightedTvl

====
